---- MODULE Spec2Model ----
(***************************************************************************)
(* A model of the shared concurrent state of the LLM simulator:            *)
(*   - the security rate limiter (src/security/rate_limit.rs): per-key     *)
(*     token buckets, every atomic load / store / compare-exchange of      *)
(*     TokenBucket::refill and TokenBucket::try_consume is one step;       *)
(*   - the drain controller (src/server/shutdown.rs) and the router that   *)
(*     create_router builds (src/server/mod.rs);                           *)
(*   - the chaos engine's circuit breakers and injection rules             *)
(*     (src/engine/chaos.rs), the request paths of the simulation engine   *)
(*     with its counters (src/engine/mod.rs, src/engine/state.rs) and the  *)
(*     checks of chat_completion on a request (src/types/request.rs);      *)
(*   - the request pipeline: the layer chain of create_router with the     *)
(*     security middleware (src/security) and the handlers;                *)
(*   - the SSE streams of src/server/streaming.rs with the latency         *)
(*     schedule of src/latency/mod.rs;                                     *)
(*   - the ShutdownState operations with the admin drain handler, and the  *)
(*     engine counters under a concurrent reset_stats;                     *)
(*   - the parts a SimulationEngine holds: the response generator          *)
(*     (src/engine/generator.rs), the latency simulator with its samplers  *)
(*     (src/latency), and update_config.                                   *)
(* Each subsystem has its own specification; the variables of the other    *)
(* subsystems stay at their constructed values.                            *)
(***************************************************************************)
EXTENDS Integers, Sequences, FiniteSets, TLC

(***************************************************************************)
(* Bounds of the rate-limiter model.                                       *)
(***************************************************************************)
\* number of request tasks calling RateLimiter::try_acquire concurrently
NumThreads == 2
\* try_acquire calls made in one behaviour, over all tasks
MaxCalls == 3
\* the clock runs from 0 to MaxTime milliseconds
MaxTime == 2
\* the configured standard tier: requests_per_minute and burst_size
StandardRpm == 30000
StandardBurst == 2

Threads == 1..NumThreads

\* key ids as api_key_auth_middleware attaches them, with the tier of each
Keys == {"user-1", "admin-1"}

\* the keys of the bucket map: the configured key ids and ApiKeyInfo::anonymous().id
BucketKeys == Keys \cup {"anonymous"}

KeyTier(key) == IF key = "admin-1" THEN "Unlimited" ELSE "Standard"

Min(a, b) == IF a < b THEN a ELSE b

VARIABLES
    \* ---- rate limiter ----
    now_ms,        \* the monotonic clock (Instant::now), in milliseconds
    buckets,       \* RateLimiter.buckets: key -> index into bucket_store, 0 = no entry
    bucket_store,  \* every TokenBucket ever allocated (the Arc<TokenBucket> objects)
    th,            \* per task: position inside try_acquire and its locals
    calls,         \* number of try_acquire calls started so far
    consumed,      \* history: per bucket, tokens taken by successful try_consume
    refilled,      \* history: per bucket, sum of new_tokens of the refills that stored
    \* ---- drain controller and router ----
    layers,        \* the middleware layers of the serving router, outermost first
    in_flight,     \* ShutdownState.in_flight
    draining,      \* ShutdownState.draining
    ready,         \* ShutdownState.ready
    drain_timeout, \* ShutdownState.drain_timeout, in milliseconds
    shutdown,      \* the graceful_shutdown future: position, elapsed time of wait_for_drain
    reqs,          \* per HTTP request: position in the router and history of its path
    \* ---- chaos engine ----
    config,           \* ChaosEngine.config (fixed for the life of the engine)
    circuit_breakers, \* ChaosEngine.circuit_breakers: key -> CircuitBreaker, or NoBreaker
    request_counter,  \* ChaosEngine.request_counter
    now_s,            \* the monotonic clock read by the breakers, in seconds
    injected,         \* the value the latest maybe_inject_error call returned
    chaos_call,       \* history of that call: the checks it evaluated, its draws per rule
    \* ---- simulation engine ----
    engine_reqs,      \* per engine call: position in the call, endpoint, model, result
    stats,            \* SimulationEngine.state: the EngineState counters
    chat,             \* one chat_completion call past its chaos check: request, what it computed
    \* ---- request pipeline ----
    security,         \* SecurityConfig: the flags the security middleware reads
    http,             \* the HTTP request being served: position in the layer chain, identity, response
    \* ---- streaming ----
    sse,              \* one SSE stream: its chunks, the closure's state, the events emitted
    \* ---- admin handlers ----
    admin,            \* the admin handlers in progress: position of each, what it answered
    \* ---- SimulationEngine ----
    engine            \* the held config, the latency simulator and the generator

limiterVars == <<now_ms, buckets, bucket_store, th, calls, consumed, refilled>>

drainVars == <<layers, in_flight, draining, ready, drain_timeout, shutdown, reqs>>

chaosVars == <<config, circuit_breakers, request_counter, now_s, injected, chaos_call>>

engineVars == <<engine_reqs, stats>>

chatVars == <<chat>>

httpVars == <<security, http>>

sseVars == <<sse>>

adminVars == <<admin>>

simVars == <<engine>>

vars == <<now_ms, buckets, bucket_store, th, calls, consumed, refilled,
          layers, in_flight, draining, ready, drain_timeout, shutdown, reqs,
          config, circuit_breakers, request_counter, now_s, injected, chaos_call,
          engine_reqs, stats, chat, security, http, sse, admin, engine>>

\* what the steps of one subsystem leave alone
LimiterFrame == UNCHANGED <<drainVars, chaosVars, engineVars, chatVars, httpVars, sseVars, adminVars, simVars>>

DrainFrame == UNCHANGED <<limiterVars, chaosVars, engineVars, chatVars, httpVars, sseVars, adminVars, simVars>>

ChaosFrame == UNCHANGED <<limiterVars, drainVars, engineVars, chatVars, httpVars, sseVars, adminVars, simVars>>

EngineFrame == UNCHANGED <<limiterVars, drainVars, chatVars, httpVars, sseVars, adminVars, simVars>>

ChatFrame == UNCHANGED <<limiterVars, drainVars, chaosVars, engineVars, httpVars, sseVars, adminVars, simVars>>

\* the pipeline steps state themselves what they do to the limiter and the chaos engine
HttpFrame ==
    UNCHANGED <<drainVars, engine_reqs, chatVars, sseVars, adminVars, simVars, security,
                th, calls, now_ms>>

StreamFrame ==
    UNCHANGED <<limiterVars, drainVars, chaosVars, engine_reqs, chatVars, httpVars, adminVars, simVars>>

(***************************************************************************)
(* RateLimitConfig::get_tier_config.  The unlimited tier (u32::MAX for     *)
(* both fields) never reaches get_bucket through try_acquire.              *)
(***************************************************************************)
get_tier_config(tier) ==
    CASE tier = "Standard" -> [requests_per_minute |-> StandardRpm, burst_size |-> StandardBurst]
      [] tier = "Premium"  -> [requests_per_minute |-> 600, burst_size |-> 100]
      [] tier = "Admin"    -> [requests_per_minute |-> 1000, burst_size |-> 200]

(***************************************************************************)
(* TokenBucket::new: a full bucket, last_refill 0, start = now.  `key` is  *)
(* history: the key the bucket was created for.                            *)
(***************************************************************************)
TokenBucket_new(capacity, requests_per_minute, key) ==
    [capacity |-> capacity, tokens |-> capacity, rpm |-> requests_per_minute,
     last_refill |-> 0, start |-> now_ms, key |-> key]

(***************************************************************************)
(* refill, lines 80-90: elapsed = now.saturating_sub(last); the result is  *)
(* 0 when less than 1 ms elapsed, else floor(elapsed_secs * refill_rate)   *)
(* with refill_rate = rpm / 60 per second, i.e. rpm / 60000 per ms.        *)
(***************************************************************************)
saturating_sub(a, b) == IF a > b THEN a - b ELSE 0

new_tokens(now, last, rpm) ==
    LET elapsed == saturating_sub(now, last)
    IN  IF elapsed < 1 THEN 0 ELSE (elapsed * rpm) \div 60000

\* refill, line 98: (current + new_tokens).min(capacity)
new_count_unclamped(current, added, capacity) == current + added

new_count(current, added, capacity) == Min(current + added, capacity)

\* try_consume, line 62: the consume is refused when current < count
refuses(current, count) == current < count

IdleThread ==
    [pc |-> "idle", key |-> "", bucket |-> 0, phase |-> "", now |-> 0, last |-> 0,
     added |-> 0, cur |-> 0]

RateLimiter_new ==
    /\ now_ms = 0
    /\ buckets = [k \in BucketKeys |-> 0]
    /\ bucket_store = <<>>
    /\ th = [t \in Threads |-> IdleThread]
    /\ calls = 0
    /\ consumed = <<>>
    /\ refilled = <<>>

\* where a task continues when refill returns: try_consume's loop, or the load of tokens()
AfterRefill(phase) == IF phase = "consume" THEN "c_load" ELSE "t_load"

\* try_acquire returns (Allowed or Exceeded): the task is free for its next request
Return(t) == th' = [th EXCEPT ![t] = IdleThread]

(***************************************************************************)
(* RateLimiter::try_acquire, entry (lines 165-173): the unlimited tier is  *)
(* allowed at once; any other tier goes on to get_bucket.                  *)
(***************************************************************************)
TryAcquire(t, key) ==
    /\ th[t].pc = "idle"
    /\ calls < MaxCalls
    /\ calls' = calls + 1
    /\ IF KeyTier(key) = "Unlimited"
       THEN Return(t)
       ELSE th' = [th EXCEPT ![t].pc = "get", ![t].key = key]
    /\ UNCHANGED <<now_ms, buckets, bucket_store, consumed, refilled>>
    /\ LimiterFrame

(***************************************************************************)
(* RateLimiter::get_bucket, lines 150-158: one DashMap get; on a miss the  *)
(* task builds a new bucket from the tier's parameters.                    *)
(***************************************************************************)
GetBucketLookup(t) ==
    /\ th[t].pc = "get"
    /\ IF buckets[th[t].key] # 0
       THEN /\ th' = [th EXCEPT ![t].pc = "r_now", ![t].phase = "consume",
                                ![t].bucket = buckets[th[t].key]]
            /\ UNCHANGED <<bucket_store, consumed, refilled>>
       ELSE LET cfg == get_tier_config(KeyTier(th[t].key))
            IN  /\ bucket_store' = Append(bucket_store,
                       TokenBucket_new(cfg.burst_size, cfg.requests_per_minute, th[t].key))
                /\ consumed' = Append(consumed, 0)
                /\ refilled' = Append(refilled, 0)
                /\ th' = [th EXCEPT ![t].pc = "insert", ![t].bucket = Len(bucket_store) + 1]
    /\ UNCHANGED <<now_ms, buckets, calls>>
    /\ LimiterFrame

\* RateLimiter::get_bucket, lines 160-161: DashMap insert replaces any entry of the key
GetBucketInsert(t) ==
    /\ th[t].pc = "insert"
    /\ buckets' = [buckets EXCEPT ![th[t].key] = th[t].bucket]
    /\ th' = [th EXCEPT ![t].pc = "r_now", ![t].phase = "consume"]
    /\ UNCHANGED <<now_ms, bucket_store, consumed, refilled, calls>>
    /\ LimiterFrame

\* TokenBucket::refill, line 77: now_nanos = start.elapsed()
RefillNow(t) ==
    /\ th[t].pc = "r_now"
    /\ th' = [th EXCEPT ![t].pc = "r_load",
                        ![t].now = now_ms - bucket_store[th[t].bucket].start]
    /\ UNCHANGED <<now_ms, buckets, bucket_store, consumed, refilled, calls>>
    /\ LimiterFrame

\* TokenBucket::refill, lines 78-90: load last_refill, return early when nothing to add
RefillLoadLast(t) ==
    /\ th[t].pc = "r_load"
    /\ LET b    == bucket_store[th[t].bucket]
           last == b.last_refill
           n    == new_tokens(th[t].now, last, b.rpm)
       IN  IF n = 0
           THEN th' = [th EXCEPT ![t].pc = AfterRefill(th[t].phase), ![t].now = 0]
           ELSE th' = [th EXCEPT ![t].pc = "r_cas", ![t].last = last, ![t].added = n]
    /\ UNCHANGED <<now_ms, buckets, bucket_store, consumed, refilled, calls>>
    /\ LimiterFrame

(***************************************************************************)
(* TokenBucket::refill, lines 93-96: compare_exchange_weak on last_refill. *)
(* It fails when another task moved last_refill, and may fail spuriously.  *)
(***************************************************************************)
RefillCasLast(t) ==
    /\ th[t].pc = "r_cas"
    /\ \E ok \in BOOLEAN :
          /\ ok => bucket_store[th[t].bucket].last_refill = th[t].last
          /\ IF ok
             THEN /\ bucket_store' = [bucket_store EXCEPT ![th[t].bucket].last_refill = th[t].now]
                  /\ th' = [th EXCEPT ![t].pc = "r_tok_load", ![t].now = 0, ![t].last = 0]
             ELSE /\ th' = [th EXCEPT ![t].pc = AfterRefill(th[t].phase),
                                      ![t].now = 0, ![t].last = 0, ![t].added = 0]
                  /\ UNCHANGED bucket_store
    /\ UNCHANGED <<now_ms, buckets, consumed, refilled, calls>>
    /\ LimiterFrame

\* TokenBucket::refill, line 97: current = tokens.load()
RefillLoadTokens(t) ==
    /\ th[t].pc = "r_tok_load"
    /\ th' = [th EXCEPT ![t].pc = "r_tok_store", ![t].cur = bucket_store[th[t].bucket].tokens]
    /\ UNCHANGED <<now_ms, buckets, bucket_store, consumed, refilled, calls>>
    /\ LimiterFrame

\* TokenBucket::refill, lines 98-99: tokens.store(min(capacity, current + new_tokens))
RefillStoreTokens(t) ==
    /\ th[t].pc = "r_tok_store"
    /\ LET b == bucket_store[th[t].bucket]
       IN  bucket_store' = [bucket_store EXCEPT
               ![th[t].bucket].tokens = new_count(th[t].cur, th[t].added, b.capacity)]
    /\ refilled' = [refilled EXCEPT ![th[t].bucket] = @ + th[t].added]
    /\ th' = [th EXCEPT ![t].pc = AfterRefill(th[t].phase), ![t].cur = 0, ![t].added = 0]
    /\ UNCHANGED <<now_ms, buckets, consumed, calls>>
    /\ LimiterFrame

(***************************************************************************)
(* TokenBucket::try_consume(1), lines 61-64: load tokens; refuse when      *)
(* fewer than `count` are left.  On refusal try_acquire goes on to         *)
(* time_until_token (line 185).                                            *)
(***************************************************************************)
ConsumeLoad(t) ==
    /\ th[t].pc = "c_load"
    /\ LET current == bucket_store[th[t].bucket].tokens
       IN  IF refuses(current, 1)
           THEN th' = [th EXCEPT ![t].pc = "r_now", ![t].phase = "retry"]
           ELSE th' = [th EXCEPT ![t].pc = "c_cas", ![t].cur = current]
    /\ UNCHANGED <<now_ms, buckets, bucket_store, consumed, refilled, calls>>
    /\ LimiterFrame

(***************************************************************************)
(* TokenBucket::try_consume(1), lines 66-71: compare_exchange_weak on      *)
(* tokens; on failure (real or spurious) the loop reloads.  On success     *)
(* try_acquire goes on to bucket.tokens() (line 180).                      *)
(***************************************************************************)
ConsumeCas(t) ==
    /\ th[t].pc = "c_cas"
    /\ \E ok \in BOOLEAN :
          /\ ok => bucket_store[th[t].bucket].tokens = th[t].cur
          /\ IF ok
             THEN /\ bucket_store' = [bucket_store EXCEPT ![th[t].bucket].tokens = th[t].cur - 1]
                  /\ consumed' = [consumed EXCEPT ![th[t].bucket] = @ + 1]
                  /\ th' = [th EXCEPT ![t].pc = "r_now", ![t].phase = "remaining", ![t].cur = 0]
             ELSE /\ th' = [th EXCEPT ![t].pc = "c_load", ![t].cur = 0]
                  /\ UNCHANGED <<bucket_store, consumed>>
    /\ UNCHANGED <<now_ms, buckets, refilled, calls>>
    /\ LimiterFrame

(***************************************************************************)
(* TokenBucket::tokens, line 106, as called by try_acquire: for            *)
(* `remaining` (line 180), then inside time_until_token for `reset` (line  *)
(* 182) or `retry_after` (line 185).  The call then returns.               *)
(***************************************************************************)
TokensLoad(t) ==
    /\ th[t].pc = "t_load"
    /\ CASE th[t].phase = "remaining" ->
                th' = [th EXCEPT ![t].pc = "r_now", ![t].phase = "reset"]
         [] th[t].phase = "reset" -> Return(t)
         [] th[t].phase = "retry" -> Return(t)
    /\ UNCHANGED <<now_ms, buckets, bucket_store, consumed, refilled, calls>>
    /\ LimiterFrame

\* time passes
Tick ==
    /\ now_ms < MaxTime
    /\ now_ms' = now_ms + 1
    /\ UNCHANGED <<buckets, bucket_store, th, consumed, refilled, calls>>
    /\ LimiterFrame

LimiterNext ==
    \/ \E t \in Threads, key \in Keys : TryAcquire(t, key)
    \/ \E t \in Threads : GetBucketLookup(t)
    \/ \E t \in Threads : GetBucketInsert(t)
    \/ \E t \in Threads : RefillNow(t)
    \/ \E t \in Threads : RefillLoadLast(t)
    \/ \E t \in Threads : RefillCasLast(t)
    \/ \E t \in Threads : RefillLoadTokens(t)
    \/ \E t \in Threads : RefillStoreTokens(t)
    \/ \E t \in Threads : ConsumeLoad(t)
    \/ \E t \in Threads : ConsumeCas(t)
    \/ \E t \in Threads : TokensLoad(t)
    \/ Tick

(***************************************************************************)
(* Bounds of the drain model.                                              *)
(***************************************************************************)
\* number of HTTP requests that arrive in one behaviour
NumRequests == 2
\* drain timeouts range over 0 .. MaxDrainPolls polling intervals, in half intervals
MaxDrainPolls == 2

Requests == 1..NumRequests

\* wait_for_drain, line 118: tokio::time::sleep(Duration::from_millis(100))
PollIntervalMs == 100

DrainTimeouts == {i * (PollIntervalMs \div 2) : i \in 0..(2 * MaxDrainPolls)}

(***************************************************************************)
(* The layers create_router puts around the handlers, outermost first:     *)
(* the ServiceBuilder stack (trace, compression, timeout), the CORS layer, *)
(* then the layers of apply_security_middleware.  The request tracking     *)
(* middleware of shutdown.rs is not among them.                            *)
(***************************************************************************)
apply_security_middleware ==
    <<"security_headers", "cors", "rate_limit", "api_key_auth", "admin_auth">>

create_router ==
    <<"trace", "compression", "timeout", "cors">> \o apply_security_middleware

\* a router on which request_tracking_middleware is layered as well
TrackedRouter == <<"request_tracking">> \o create_router

HasLayer(stack, layer) == \E i \in 1..Len(stack) : stack[i] = layer

NewRequest ==
    [pc |-> "new", after_drain |-> FALSE, started |-> 0, completed |-> 0, exit |-> "none"]

\* ShutdownState::new, and the graceful_shutdown future waiting for a signal
ShutdownState_new(timeout, stack) ==
    /\ layers = stack
    /\ in_flight = 0
    /\ draining = FALSE
    /\ ready = TRUE
    /\ drain_timeout = timeout
    /\ shutdown = [pc |-> "await_signal", elapsed |-> 0, result |-> "none"]
    /\ reqs = [r \in Requests |-> NewRequest]

\* ShutdownState::is_draining
is_draining == draining

\* ShutdownState::is_ready
is_ready_ignoring_draining == ready

is_ready == ready /\ ~is_draining

(***************************************************************************)
(* A request reaches the router while the listener accepts (axum stops     *)
(* accepting once the graceful_shutdown future has completed).  It enters  *)
(* the tracking middleware if the router has that layer, else it goes on   *)
(* to its handler.                                                         *)
(***************************************************************************)
Arrive(r) ==
    /\ reqs[r].pc = "new"
    /\ shutdown.pc # "done"
    /\ reqs' = [reqs EXCEPT ![r].pc = IF HasLayer(layers, "request_tracking")
                                      THEN "mw_check" ELSE "handler",
                            ![r].after_drain = draining]
    /\ UNCHANGED <<layers, in_flight, draining, ready, drain_timeout, shutdown>>
    /\ DrainFrame

\* request_tracking_middleware, lines 147-149: reject with DrainError (503) when draining
TrackingCheck(r) ==
    /\ reqs[r].pc = "mw_check"
    /\ IF is_draining
       THEN reqs' = [reqs EXCEPT ![r].pc = "done", ![r].exit = "rejected_503"]
       ELSE reqs' = [reqs EXCEPT ![r].pc = "mw_start"]
    /\ UNCHANGED <<layers, in_flight, draining, ready, drain_timeout, shutdown>>
    /\ DrainFrame

\* request_tracking_middleware, lines 152-155: request_started(), then next.run(request)
TrackingStarted(r) ==
    /\ reqs[r].pc = "mw_start"
    /\ in_flight' = in_flight + 1
    /\ reqs' = [reqs EXCEPT ![r].pc = "handler", ![r].started = @ + 1]
    /\ UNCHANGED <<layers, draining, ready, drain_timeout, shutdown>>
    /\ DrainFrame

\* the inner service (handler) returns its response to the layer that awaits it
HandlerReturns(r) ==
    /\ reqs[r].pc = "handler"
    /\ IF HasLayer(layers, "request_tracking")
       THEN reqs' = [reqs EXCEPT ![r].pc = "mw_complete"]
       ELSE reqs' = [reqs EXCEPT ![r].pc = "done", ![r].exit = "returned"]
    /\ UNCHANGED <<layers, in_flight, draining, ready, drain_timeout, shutdown>>
    /\ DrainFrame

\* request_tracking_middleware, lines 158-160: request_completed(), Ok(response)
TrackingCompleted(r) ==
    /\ reqs[r].pc = "mw_complete"
    /\ in_flight' = in_flight - 1
    /\ reqs' = [reqs EXCEPT ![r].pc = "done", ![r].exit = "returned", ![r].completed = @ + 1]
    /\ UNCHANGED <<layers, draining, ready, drain_timeout, shutdown>>
    /\ DrainFrame

(***************************************************************************)
(* The request future is dropped while it awaits next.run (line 155): the  *)
(* client disconnected, or the TimeoutLayer of create_router elapsed.      *)
(* Nothing after the await runs.                                           *)
(***************************************************************************)
Cancelled(r) ==
    /\ reqs[r].pc = "handler"
    /\ reqs' = [reqs EXCEPT ![r].pc = "done", ![r].exit = "cancelled"]
    /\ UNCHANGED <<layers, in_flight, draining, ready, drain_timeout, shutdown>>
    /\ DrainFrame

\* the handler panics: the panic unwinds through the await of line 155
HandlerPanics(r) ==
    /\ reqs[r].pc = "handler"
    /\ reqs' = [reqs EXCEPT ![r].pc = "done", ![r].exit = "panicked"]
    /\ UNCHANGED <<layers, in_flight, draining, ready, drain_timeout, shutdown>>
    /\ DrainFrame

\* graceful_shutdown, lines 196-206, and start_drain, line 80: draining.store(true)
StartDrainSetDraining ==
    /\ shutdown.pc = "await_signal"
    /\ draining' = TRUE
    /\ shutdown' = [shutdown EXCEPT !.pc = "start_drain"]
    /\ UNCHANGED <<layers, in_flight, ready, drain_timeout, reqs>>
    /\ DrainFrame

\* start_drain, line 81: ready.store(false); then wait_for_drain takes drain_start
StartDrainSetReady ==
    /\ shutdown.pc = "start_drain"
    /\ ready' = FALSE
    /\ shutdown' = [shutdown EXCEPT !.pc = "poll", !.elapsed = 0]
    /\ UNCHANGED <<layers, in_flight, draining, drain_timeout, reqs>>
    /\ DrainFrame

\* wait_for_drain, line 104: drain_start.elapsed() > self.drain_timeout
timeout_exceeded_late(elapsed, timeout) == elapsed > timeout + 2 * PollIntervalMs

timeout_exceeded(elapsed, timeout) == elapsed > timeout

\* wait_for_drain, lines 103-110: one evaluation of the loop condition and the timeout test
WaitForDrainPoll ==
    /\ shutdown.pc = "poll"
    /\ IF in_flight > 0
       THEN IF timeout_exceeded(shutdown.elapsed, drain_timeout)
            THEN shutdown' = [shutdown EXCEPT !.pc = "done", !.result = "forced"]
            ELSE shutdown' = [shutdown EXCEPT !.pc = "sleep"]
       ELSE shutdown' = [shutdown EXCEPT !.pc = "done", !.result = "drained"]
    /\ UNCHANGED <<layers, in_flight, draining, ready, drain_timeout, reqs>>
    /\ DrainFrame

\* wait_for_drain, line 118: the 100 ms sleep ends
WaitForDrainSleep ==
    /\ shutdown.pc = "sleep"
    /\ shutdown' = [shutdown EXCEPT !.pc = "poll", !.elapsed = @ + PollIntervalMs]
    /\ UNCHANGED <<layers, in_flight, draining, ready, drain_timeout, reqs>>
    /\ DrainFrame

\* the steps of the server that run_server starts: create_router serves the requests
ServerNext ==
    \/ \E r \in Requests : Arrive(r)
    \/ \E r \in Requests : HandlerReturns(r)
    \/ \E r \in Requests : Cancelled(r)
    \/ \E r \in Requests : HandlerPanics(r)
    \/ StartDrainSetDraining
    \/ StartDrainSetReady
    \/ WaitForDrainPoll

\* the steps of a server whose router carries the tracking layer
TrackedNext ==
    \/ \E r \in Requests : Arrive(r)
    \/ \E r \in Requests : TrackingCheck(r)
    \/ \E r \in Requests : TrackingStarted(r)
    \/ \E r \in Requests : HandlerReturns(r)
    \/ \E r \in Requests : TrackingCompleted(r)
    \/ \E r \in Requests : Cancelled(r)
    \/ \E r \in Requests : HandlerPanics(r)
    \/ StartDrainSetDraining
    \/ StartDrainSetReady
    \/ WaitForDrainPoll
    \/ WaitForDrainSleep

(***************************************************************************)
(* The operations of ShutdownState called in any order by any caller: the  *)
(* counters, set_ready, and start_drain from graceful_shutdown and from    *)
(* the admin_drain handler.  start_drain is two stores; a call of another  *)
(* task may fall between them.                                             *)
(***************************************************************************)
\* requests counted in in_flight at one time
MaxInFlight == 2

\* no admin handler is running
NoAdmin ==
    [drain |-> "idle", status |-> [draining |-> FALSE, in_flight_requests |-> 0,
                                  ready |-> TRUE],
     reset |-> "idle", reset_called |-> FALSE, update_config |-> "none",
     post_config |-> "none"]

ShutdownApiFrame ==
    UNCHANGED <<limiterVars, chaosVars, engineVars, chatVars, httpVars, sseVars, simVars,
                layers, drain_timeout, reqs>>

\* ShutdownState::request_started
RequestStarted ==
    /\ in_flight < MaxInFlight
    /\ in_flight' = in_flight + 1
    /\ UNCHANGED <<draining, ready, shutdown, admin>>
    /\ ShutdownApiFrame

\* ShutdownState::request_completed, for a request that was counted
RequestCompleted ==
    /\ in_flight > 0
    /\ in_flight' = in_flight - 1
    /\ UNCHANGED <<draining, ready, shutdown, admin>>
    /\ ShutdownApiFrame

\* ShutdownState::set_ready: the two flags after the call
set_ready_ending_drain(value) ==
    [draining |-> IF value THEN FALSE ELSE draining, ready |-> value]

set_ready(value) == [draining |-> draining, ready |-> value]

SetReady(value) ==
    /\ draining' = set_ready(value).draining
    /\ ready' = set_ready(value).ready
    /\ UNCHANGED <<in_flight, shutdown, admin>>
    /\ ShutdownApiFrame

\* admin_drain, line 216, and start_drain, line 80: draining.store(true)
AdminDrainSetDraining ==
    /\ admin.drain = "idle"
    /\ draining' = TRUE
    /\ admin' = [admin EXCEPT !.drain = "start_drain"]
    /\ UNCHANGED <<in_flight, ready, shutdown>>
    /\ ShutdownApiFrame

\* start_drain, line 81: ready.store(false)
AdminDrainSetReady ==
    /\ admin.drain = "start_drain"
    /\ ready' = FALSE
    /\ admin' = [admin EXCEPT !.drain = "status"]
    /\ UNCHANGED <<in_flight, draining, shutdown>>
    /\ ShutdownApiFrame

\* admin_drain, lines 218-223: the DrainStatus it answers with
AdminDrainStatus ==
    /\ admin.drain = "status"
    /\ admin' = [admin EXCEPT !.drain = "idle",
                              !.status = [draining |-> is_draining,
                                          in_flight_requests |-> in_flight,
                                          ready |-> is_ready]]
    /\ UNCHANGED <<in_flight, draining, ready, shutdown>>
    /\ ShutdownApiFrame

ShutdownApiNext ==
    \/ RequestStarted
    \/ RequestCompleted
    \/ \E value \in BOOLEAN : SetReady(value)
    \/ StartDrainSetDraining
    \/ StartDrainSetReady
    \/ WaitForDrainPoll
    \/ WaitForDrainSleep
    \/ AdminDrainSetDraining
    \/ AdminDrainSetReady
    \/ AdminDrainStatus

(***************************************************************************)
(* Bounds of the chaos-engine model.                                       *)
(***************************************************************************)
\* failure_threshold and success_threshold are 1 or MaxThreshold
MaxThreshold == 2
\* failure_window_secs is MaxWindowSecs
MaxWindowSecs == 1
\* recovery_timeout_secs is 0 or MaxRecoverySecs
MaxRecoverySecs == 2
\* the breakers' clock runs from 0 to MaxSecs seconds
MaxSecs == 2
\* maybe_inject_error calls in one behaviour (bounds request_counter)
MaxChaosRequests == 3

Models == {"gpt-4", "claude-3"}

\* the embedding model of the engine's configuration
EmbeddingModel == "text-embedding-ada-002"

\* the model names of engine requests: the configured models and one that is not
RequestModels == Models \cup {EmbeddingModel, "nonexistent-model"}

BreakerKeys == RequestModels \cup {"global"}

\* Option<Instant>::None, and the absent entry of the circuit_breakers map
NoInstant == 0 - 1

NoBreaker == [state |-> "Absent"]

\* the endpoint strings the engine passes to maybe_inject_error
ChaosEndpoints == {"/chat/completions", "/embeddings"}

\* an ErrorInjectionRule with positive probability: models and endpoints are its filters
Rule(name, error_type, enabled, models, endpoints) ==
    [name |-> name, error_type |-> error_type, enabled |-> enabled,
     models |-> models, endpoints |-> endpoints]

\* one enabled rule that matches every model and endpoint
ServerErrorRule == Rule("server_error", "server_error", TRUE, {}, {})

\* the chaos configurations of the breaker model; the chaos rate limiter is enabled
\* and ServerErrorRule is the only rule
ChaosConfigs ==
    [enabled : BOOLEAN,
     global_probability_positive : {TRUE},
     circuit_breaker : [enabled : BOOLEAN,
                        failure_threshold : {1, MaxThreshold},
                        failure_window_secs : {MaxWindowSecs},
                        recovery_timeout_secs : {0, MaxRecoverySecs},
                        success_threshold : {1, MaxThreshold},
                        per_model : BOOLEAN],
     rate_limiting : [enabled : {TRUE}],
     errors : {<<ServerErrorRule>>}]

\* rules in one configuration
MaxRules == 2

\* the injection rules of the rule-list configurations: one without filters, one with a
\* model filter (a prefix of "gpt-4") and an endpoint filter, one disabled
RuleSet ==
    {Rule("timeouts", "timeout", TRUE, {}, {}),
     Rule("gpt-embed-gateway", "bad_gateway", TRUE, {"gpt"}, {"/embed"}),
     Rule("off", "authentication_error", FALSE, {}, {})}

RuleConfigs ==
    [enabled : {TRUE},
     global_probability_positive : {TRUE},
     circuit_breaker : [enabled : BOOLEAN,
                        failure_threshold : {1},
                        failure_window_secs : {1},
                        recovery_timeout_secs : {MaxRecoverySecs},
                        success_threshold : {1},
                        per_model : {TRUE}],
     rate_limiting : [enabled : BOOLEAN],
     errors : [1..MaxRules -> RuleSet]]

\* ChaosConfig::default: chaos disabled, CircuitBreakerConfig::default
ChaosConfig_default ==
    [enabled |-> FALSE,
     global_probability_positive |-> TRUE,
     circuit_breaker |-> [enabled |-> FALSE, failure_threshold |-> 5,
                          failure_window_secs |-> 60, recovery_timeout_secs |-> 30,
                          success_threshold |-> 3, per_model |-> TRUE],
     rate_limiting |-> [enabled |-> FALSE],
     errors |-> <<>>]

\* no maybe_inject_error call yet.  checks: the checks a call evaluated, in order;
\* draws: per rule the loop visited, "skipped" (disabled or filtered out), "miss" or
\* "hit" (the outcome of its uniform draw); rule: the index of the rule that fired;
\* error: the error type returned
NoChaosCall == [checks |-> <<>>, draws |-> <<>>, rule |-> 0, error |-> ""]

\* ChaosEngine::new
ChaosEngine_new(cfg) ==
    /\ config = cfg
    /\ circuit_breakers = [k \in BreakerKeys |-> NoBreaker]
    /\ request_counter = 0
    /\ now_s = 0
    /\ injected = "none"
    /\ chaos_call = NoChaosCall

\* ChaosConfig::is_active: enabled && global_probability > 0.0
is_active == config.enabled /\ config.global_probability_positive

\* the key of check_circuit_breaker, record_failure and record_success
breaker_key(model) == IF config.circuit_breaker.per_model THEN model ELSE "global"

(***************************************************************************)
(* CircuitBreaker::new.  first_counted and streak are history:             *)
(* first_counted is the time of the oldest failure counted in              *)
(* failure_count, streak the successes recorded since the breaker last     *)
(* became half-open with no failure in between.                            *)
(***************************************************************************)
CircuitBreaker_new ==
    [state |-> "Closed", failure_count |-> 0, success_count |-> 0,
     last_failure |-> NoInstant, opened_at |-> NoInstant,
     first_counted |-> NoInstant, streak |-> 0]

\* is_open, line 244: opened.elapsed() >= self.config.recovery_timeout()
recovery_elapsed_always(elapsed, recovery_timeout_secs) == TRUE

recovery_elapsed_strictly(elapsed, recovery_timeout_secs) == elapsed > recovery_timeout_secs

recovery_elapsed(elapsed, recovery_timeout_secs) == elapsed >= recovery_timeout_secs

(***************************************************************************)
(* CircuitBreaker::is_open: the breaker after the call, and the returned   *)
(* flag.                                                                   *)
(***************************************************************************)
is_open(b) ==
    IF b.state = "Open"
    THEN IF /\ b.opened_at # NoInstant
            /\ recovery_elapsed(now_s - b.opened_at, config.circuit_breaker.recovery_timeout_secs)
         THEN [breaker |-> [b EXCEPT !.state = "HalfOpen", !.success_count = 0, !.streak = 0],
               open |-> FALSE]
         ELSE [breaker |-> b, open |-> TRUE]
    ELSE [breaker |-> b, open |-> FALSE]

(***************************************************************************)
(* record_failure, line 268: last.elapsed() <= failure_window(), where     *)
(* last is the Instant taken at line 258 of the same call.  The elapsed    *)
(* time is that between the two clock reads: zero when both reads return   *)
(* the same instant, else positive and below one second.                   *)
(***************************************************************************)
within_window(same_instant, failure_window_secs) ==
    failure_window_secs >= 1 \/ same_instant

\* record_failure, lines 278-282: any failure in half-open reopens the breaker
reopen_unless_successes(b1) ==
    IF b1.success_count = 0
    THEN [b1 EXCEPT !.state = "Open", !.opened_at = now_s, !.streak = 0]
    ELSE b1

reopen(b1) == [b1 EXCEPT !.state = "Open", !.opened_at = now_s, !.streak = 0]

\* CircuitBreaker::record_failure
CircuitBreaker_record_failure_reopening(b, same_instant) ==
    LET b1 == [b EXCEPT !.last_failure = now_s]
    IN  CASE b.state = "Closed" ->
               LET n == b.failure_count + 1
                   first == IF b.failure_count = 0 THEN now_s ELSE b.first_counted
               IN  IF n >= config.circuit_breaker.failure_threshold
                   THEN IF within_window(same_instant, config.circuit_breaker.failure_window_secs)
                        THEN [b1 EXCEPT !.failure_count = n, !.first_counted = first,
                                        !.state = "Open", !.opened_at = now_s]
                        ELSE [b1 EXCEPT !.failure_count = 1, !.first_counted = now_s]
                   ELSE [b1 EXCEPT !.failure_count = n, !.first_counted = first]
          [] b.state = "HalfOpen" -> reopen(b1)
          [] b.state = "Open" -> [b1 EXCEPT !.opened_at = now_s]

CircuitBreaker_record_failure(b, same_instant) ==
    LET b1 == [b EXCEPT !.last_failure = now_s]
    IN  CASE b.state = "Closed" ->
               LET n == b.failure_count + 1
                   first == IF b.failure_count = 0 THEN now_s ELSE b.first_counted
               IN  IF n >= config.circuit_breaker.failure_threshold
                   THEN IF within_window(same_instant, config.circuit_breaker.failure_window_secs)
                        THEN [b1 EXCEPT !.failure_count = n, !.first_counted = first,
                                        !.state = "Open", !.opened_at = now_s]
                        ELSE [b1 EXCEPT !.failure_count = 1, !.first_counted = now_s]
                   ELSE [b1 EXCEPT !.failure_count = n, !.first_counted = first]
          [] b.state = "HalfOpen" -> reopen(b1)
          [] b.state = "Open" -> b1

\* record_success, line 297: self.success_count >= self.config.success_threshold
closes_strictly_above(success_count, success_threshold) == success_count > success_threshold

closes(success_count, success_threshold) == success_count >= success_threshold

\* CircuitBreaker::record_success
CircuitBreaker_record_success_keeping_count(b) ==
    CASE b.state = "Closed" -> [b EXCEPT !.first_counted = NoInstant]
      [] b.state = "HalfOpen" ->
           IF closes(b.success_count + 1, config.circuit_breaker.success_threshold)
           THEN [b EXCEPT !.state = "Closed", !.failure_count = 0, !.success_count = 0,
                          !.opened_at = NoInstant, !.first_counted = NoInstant,
                          !.streak = @ + 1]
           ELSE [b EXCEPT !.success_count = @ + 1, !.streak = @ + 1]
      [] b.state = "Open" -> b

CircuitBreaker_record_success(b) ==
    CASE b.state = "Closed" ->
           [b EXCEPT !.failure_count = 0, !.first_counted = NoInstant]
      [] b.state = "HalfOpen" ->
           IF closes(b.success_count + 1, config.circuit_breaker.success_threshold)
           THEN [b EXCEPT !.state = "Closed", !.failure_count = 0, !.success_count = 0,
                          !.opened_at = NoInstant, !.first_counted = NoInstant,
                          !.streak = @ + 1]
           ELSE [b EXCEPT !.success_count = @ + 1, !.streak = @ + 1]
      [] b.state = "Open" -> b

\* str::starts_with and str::contains
starts_with(str, prefix) ==
    Len(prefix) <= Len(str) /\ SubSeq(str, 1, Len(prefix)) = prefix

contains(str, pat) ==
    \E i \in 1..(Len(str) - Len(pat) + 1) : SubSeq(str, i, i + Len(pat) - 1) = pat

\* ErrorInjectionRule::applies_to_model
applies_to_model(rule, model) ==
    rule.models = {} \/ \E m \in rule.models : m = model \/ starts_with(model, m)

\* ErrorInjectionRule::applies_to_endpoint
applies_to_endpoint(rule, endpoint) ==
    rule.endpoints = {} \/ \E e \in rule.endpoints : contains(endpoint, e)

(***************************************************************************)
(* maybe_inject_error, lines 59-78: the loop over config.errors from rule  *)
(* i on.  fires[i] is the outcome of the draw rng.gen() < effective_prob   *)
(* for rule i.  Returns the draws made and the index of the rule whose     *)
(* error is returned (0: the loop ran to its end).                         *)
(***************************************************************************)
RECURSIVE walk_rules_to_end(_, _, _, _, _, _)
walk_rules_to_end(i, model, endpoint, fires, draws, hit) ==
    IF i > Len(config.errors)
    THEN [draws |-> draws, rule |-> hit]
    ELSE LET rule == config.errors[i]
         IN  IF \/ ~rule.enabled
                \/ ~applies_to_model(rule, model)
                \/ ~applies_to_endpoint(rule, endpoint)
             THEN walk_rules_to_end(i + 1, model, endpoint, fires,
                                    Append(draws, "skipped"), hit)
             ELSE IF fires[i]
             THEN walk_rules_to_end(i + 1, model, endpoint, fires,
                                    Append(draws, "hit"), i)
             ELSE walk_rules_to_end(i + 1, model, endpoint, fires,
                                    Append(draws, "miss"), hit)

RECURSIVE walk_rules(_, _, _, _, _, _)
walk_rules(i, model, endpoint, fires, draws, hit) ==
    IF i > Len(config.errors)
    THEN [draws |-> draws, rule |-> hit]
    ELSE LET rule == config.errors[i]
         IN  IF \/ ~rule.enabled
                \/ ~applies_to_model(rule, model)
                \/ ~applies_to_endpoint(rule, endpoint)
             THEN walk_rules(i + 1, model, endpoint, fires, Append(draws, "skipped"), hit)
             ELSE IF fires[i]
             THEN [draws |-> Append(draws, "hit"), rule |-> i]
             ELSE walk_rules(i + 1, model, endpoint, fires, Append(draws, "miss"), hit)

\* create_error(rule): the injected error carries the rule's error type
create_error(rule) == rule.error_type

\* the outcomes of the draws of one call: one per rule of config.errors
Fires == [1..Len(config.errors) -> BOOLEAN]

(***************************************************************************)
(* ChaosEngine::maybe_inject_error(model, endpoint).  check_circuit_breaker*)
(* runs under the write lock of the map: entry(key).or_insert_with(new),   *)
(* then is_open.  rl_hit is the outcome of the uniform draw of             *)
(* check_rate_limit, fires those of the rule loop.                         *)
(***************************************************************************)
maybe_inject_error(model, endpoint, rl_hit, fires) ==
    /\ IF ~is_active
       THEN /\ injected' = "none"
            /\ chaos_call' = NoChaosCall
            /\ UNCHANGED <<circuit_breakers, request_counter>>
       ELSE /\ request_counter' = request_counter + 1
            /\ LET key   == breaker_key(model)
                   b     == IF circuit_breakers[key] = NoBreaker
                            THEN CircuitBreaker_new ELSE circuit_breakers[key]
                   chk   == is_open(b)
                   open  == config.circuit_breaker.enabled /\ chk.open
                   rl    == ~open /\ config.rate_limiting.enabled
                   loop  == walk_rules(1, model, endpoint, fires, <<>>, 0)
                   rules == ~open /\ ~(rl /\ rl_hit)
               IN  /\ circuit_breakers' =
                          IF config.circuit_breaker.enabled
                          THEN [circuit_breakers EXCEPT ![key] = chk.breaker]
                          ELSE circuit_breakers
                   /\ injected' =
                          IF open THEN "service_unavailable"
                          ELSE IF rl /\ rl_hit THEN "rate_limit_exceeded"
                          ELSE IF loop.rule # 0 THEN "injected"
                          ELSE "none"
                   /\ chaos_call' =
                          [checks   |-> (IF config.circuit_breaker.enabled
                                         THEN <<"circuit_breaker">> ELSE <<>>)
                                        \o (IF rl THEN <<"rate_limit">> ELSE <<>>)
                                        \o (IF rules THEN <<"rules">> ELSE <<>>),
                           draws    |-> IF rules THEN loop.draws ELSE <<>>,
                           rule     |-> IF rules THEN loop.rule ELSE 0,
                           error    |-> IF open THEN "service_unavailable"
                                        ELSE IF rl /\ rl_hit THEN "rate_limit"
                                        ELSE IF loop.rule # 0
                                        THEN create_error(config.errors[loop.rule])
                                        ELSE ""]
    /\ UNCHANGED <<config, now_s>>

\* a call of maybe_inject_error from outside the engine's request paths
MaybeInjectError(model, endpoint, rl_hit, fires) ==
    /\ request_counter < MaxChaosRequests
    /\ maybe_inject_error(model, endpoint, rl_hit, fires)
    /\ ChaosFrame

\* ChaosEngine::record_failure(model)
RecordFailure(model, same_instant) ==
    /\ IF config.circuit_breaker.enabled /\ circuit_breakers[breaker_key(model)] # NoBreaker
       THEN circuit_breakers' =
                [circuit_breakers EXCEPT ![breaker_key(model)] =
                     CircuitBreaker_record_failure(@, same_instant)]
       ELSE UNCHANGED circuit_breakers
    /\ UNCHANGED <<config, request_counter, now_s, injected, chaos_call>>
    /\ ChaosFrame

\* ChaosEngine::record_success(model)
RecordSuccess(model) ==
    /\ IF config.circuit_breaker.enabled /\ circuit_breakers[breaker_key(model)] # NoBreaker
       THEN circuit_breakers' =
                [circuit_breakers EXCEPT ![breaker_key(model)] =
                     CircuitBreaker_record_success(@)]
       ELSE UNCHANGED circuit_breakers
    /\ UNCHANGED <<config, request_counter, now_s, injected, chaos_call>>
    /\ ChaosFrame

\* a second passes
TickSecond ==
    /\ now_s < MaxSecs
    /\ now_s' = now_s + 1
    /\ UNCHANGED <<config, circuit_breakers, request_counter, injected, chaos_call>>
    /\ ChaosFrame

ChaosNext ==
    \/ \E model \in Models, rl_hit \in BOOLEAN, fires \in Fires :
          MaybeInjectError(model, "/chat/completions", rl_hit, fires)
    \/ \E model \in Models, same_instant \in BOOLEAN : RecordFailure(model, same_instant)
    \/ \E model \in Models : RecordSuccess(model)
    \/ TickSecond

\* calls of maybe_inject_error, and failures reported to the breakers
RulesNext ==
    \/ \E model \in Models, endpoint \in ChaosEndpoints, rl_hit \in BOOLEAN, fires \in Fires :
          MaybeInjectError(model, endpoint, rl_hit, fires)
    \/ \E model \in Models, same_instant \in BOOLEAN : RecordFailure(model, same_instant)

(***************************************************************************)
(* SimulationEngine: chat_completion, chat_completion_stream, embeddings.  *)
(***************************************************************************)
\* engine calls in one behaviour
MaxEngineRequests == 1

\* the largest output_tokens the generator reports
MaxOutputTokens == 1

EngineRequests == 1..MaxEngineRequests

Endpoints == {"chat_completion", "chat_completion_stream", "embeddings"}

\* Option<u32>::None of max_tokens and max_completion_tokens
NoLimit == 0 - 1

\* ChatCompletionRequest::effective_max_tokens, line 99: unwrap_or(4096)
DefaultMaxTokens == 4096

(***************************************************************************)
(* SimulatorConfig.models of the engine under study.  The two chat models  *)
(* are those of Models; context_length and max_output_tokens are small so  *)
(* that the requests of the model reach them.                              *)
(***************************************************************************)
ModelConfig(context_length, max_output_tokens, supports_streaming, is_embedding) ==
    [context_length |-> context_length, max_output_tokens |-> max_output_tokens,
     supports_streaming |-> supports_streaming, is_embedding |-> is_embedding]

models ==
    [m \in Models \cup {EmbeddingModel} |->
        CASE m = "gpt-4"        -> ModelConfig(2, 2, TRUE, FALSE)
          [] m = EmbeddingModel -> ModelConfig(2, 0, FALSE, TRUE)
          [] OTHER              -> ModelConfig(1, 8192, FALSE, FALSE)]

\* a request as the engine reads it: the model name, the text length in bytes of each
\* message (of each input for embeddings), the two optional limits, and whether
\* temperature, top_p and n are within their ranges
Request(model, messages, max_tokens, max_completion_tokens, params_ok) ==
    [model |-> model, messages |-> messages, max_tokens |-> max_tokens,
     max_completion_tokens |-> max_completion_tokens, params_ok |-> params_ok]

\* Message::estimate_tokens: (text_len / 4).max(1)
estimate_tokens(text_len) == IF text_len \div 4 >= 1 THEN text_len \div 4 ELSE 1

\* ChatCompletionRequest::estimate_input_tokens: the sum over the messages
RECURSIVE estimate_input_tokens(_)
estimate_input_tokens(messages) ==
    IF messages = <<>> THEN 0
    ELSE estimate_tokens(Head(messages)) + estimate_input_tokens(Tail(messages))

\* chat_completion, line 117: input_tokens > model_config.context_length
exceeds_context(input_tokens, context_length) == input_tokens > context_length

\* ChatCompletionRequest::effective_max_tokens:
\* max_completion_tokens.or(max_tokens).unwrap_or(4096)
effective_max_tokens(req) ==
    IF req.max_completion_tokens # NoLimit THEN req.max_completion_tokens
    ELSE IF req.max_tokens # NoLimit THEN req.max_tokens
    ELSE DefaultMaxTokens

\* chat_completion, line 126: effective_max_tokens().min(model_config.max_output_tokens)
generator_budget_unclamped(req, model_config) == effective_max_tokens(req)

generator_budget(req, model_config) ==
    Min(effective_max_tokens(req), model_config.max_output_tokens)

\* ChatCompletionRequest::validate (the model name of a request is never empty here)
validate(req) == req.messages # <<>> /\ req.params_ok

\* get_model_config(model) is Ok
model_exists(model) == model \in DOMAIN models

(***************************************************************************)
(* The checks of an engine call that follow the chaos check, in the order  *)
(* of the code: the error the call returns, or "none".                     *)
(***************************************************************************)
chat_completion_check_validate_first(req) ==
    IF ~validate(req) THEN "validation"
    ELSE IF ~model_exists(req.model) THEN "model_not_found"
    ELSE IF exceeds_context(estimate_input_tokens(req.messages),
                            models[req.model].context_length)
    THEN "context_length_exceeded"
    ELSE "none"

chat_completion_check(req) ==
    IF ~model_exists(req.model) THEN "model_not_found"
    ELSE IF ~validate(req) THEN "validation"
    ELSE IF exceeds_context(estimate_input_tokens(req.messages),
                            models[req.model].context_length)
    THEN "context_length_exceeded"
    ELSE "none"

chat_completion_stream_check(req) ==
    IF ~model_exists(req.model) THEN "model_not_found"
    ELSE IF ~models[req.model].supports_streaming THEN "validation"
    ELSE IF ~validate(req) THEN "validation"
    ELSE IF exceeds_context(estimate_input_tokens(req.messages),
                            models[req.model].context_length)
    THEN "context_length_exceeded"
    ELSE "none"

embeddings_check(req) ==
    IF ~model_exists(req.model) THEN "model_not_found"
    ELSE IF ~models[req.model].is_embedding THEN "validation"
    ELSE "none"

\* embeddings, lines 248-251: the sum over the inputs of (input.len() / 4).max(1)
embeddings_total_tokens(req) == estimate_input_tokens(req.messages)

\* EngineState::new
EngineState_new ==
    [total_requests |-> 0, total_errors |-> 0, total_input_tokens |-> 0,
     total_output_tokens |-> 0, latencies |-> 0]

\* EngineState::increment_requests, increment_errors, add_tokens, record_latency
\* (latencies counts the samples of the LatencyTracker)
increment_requests_never(s) == s

increment_requests(s) == [s EXCEPT !.total_requests = @ + 1]

increment_errors_never(s) == s

increment_errors(s) == [s EXCEPT !.total_errors = @ + 1]

add_tokens(s, input, output) ==
    [s EXCEPT !.total_input_tokens = @ + input, !.total_output_tokens = @ + output]

record_latency(s) == [s EXCEPT !.latencies = @ + 1]

\* the requests the engine is called with
EngineRequestSet ==
    {Request(model, messages, NoLimit, NoLimit, params_ok) :
        model \in RequestModels, messages \in {<<>>, <<4>>, <<8, 4>>},
        params_ok \in BOOLEAN}

\* generated: the generator has been called; input_tokens, output_tokens: what the call
\* is going to add to the token totals when it ends
NewEngineRequest ==
    [pc |-> "new", endpoint |-> "", model |-> "", result |-> "none", error |-> "",
     req |-> Request("", <<>>, NoLimit, NoLimit, TRUE), generated |-> FALSE,
     input_tokens |-> 0, output_tokens |-> 0]

\* SimulationEngine::new: no call has been made
SimulationEngine_new ==
    /\ engine_reqs = [e \in EngineRequests |-> NewEngineRequest]
    /\ stats = EngineState_new

\* the endpoint string an engine operation passes to maybe_inject_error
chaos_endpoint(endpoint) ==
    IF endpoint = "embeddings" THEN "/embeddings" ELSE "/chat/completions"

(***************************************************************************)
(* The entry of an engine call up to its first await or return:            *)
(* increment_requests, maybe_inject_error (increment_errors on a hit),     *)
(* then the checks of the operation, then the generator (output_tokens is  *)
(* the count it reports).  chat_completion_stream adds the tokens and      *)
(* returns its StreamingResponse without sleeping; the other two sleep for *)
(* the sampled latency.  No path calls record_failure or record_success.   *)
(***************************************************************************)
EngineCall(e, endpoint, req, rl_hit, fires, output_tokens) ==
    /\ engine_reqs[e].pc = "new"
    /\ \A d \in EngineRequests : d < e => engine_reqs[d].pc # "new"
    /\ maybe_inject_error(req.model, chaos_endpoint(endpoint), rl_hit, fires)
    /\ LET check == CASE endpoint = "chat_completion"        -> chat_completion_check(req)
                      [] endpoint = "chat_completion_stream" -> chat_completion_stream_check(req)
                      [] endpoint = "embeddings"             -> embeddings_check(req)
           error == IF injected' # "none" THEN "chaos" ELSE check
           input == IF endpoint = "embeddings" THEN embeddings_total_tokens(req)
                    ELSE estimate_input_tokens(req.messages)
           out   == IF endpoint = "embeddings" THEN 0 ELSE output_tokens
           s1    == increment_requests(stats)
       IN  /\ engine_reqs' = [engine_reqs EXCEPT ![e] =
                  [pc        |-> IF error = "none" /\ endpoint # "chat_completion_stream"
                                 THEN "latency" ELSE "done",
                   endpoint  |-> endpoint,
                   model     |-> req.model,
                   result    |-> IF error # "none" THEN "err"
                                 ELSE IF endpoint = "chat_completion_stream" THEN "ok"
                                 ELSE "none",
                   error     |-> IF error = "none" THEN "" ELSE error,
                   req       |-> req,
                   generated |-> error = "none",
                   input_tokens  |-> IF error = "none" THEN input ELSE 0,
                   output_tokens |-> IF error = "none" THEN out ELSE 0]]
           /\ stats' = IF error = "chaos" THEN increment_errors(s1)
                       ELSE IF error = "none" /\ endpoint = "chat_completion_stream"
                       THEN add_tokens(s1, input, out)
                       ELSE s1
    /\ EngineFrame

\* chat_completion lines 141-148, embeddings lines 257-264: the latency sleep ends,
\* record_latency, add_tokens, Ok(response)
EngineLatencyElapsed(e) ==
    /\ engine_reqs[e].pc = "latency"
    /\ engine_reqs' = [engine_reqs EXCEPT ![e].pc = "done", ![e].result = "ok"]
    /\ stats' = add_tokens(record_latency(stats), engine_reqs[e].input_tokens,
                           engine_reqs[e].output_tokens)
    /\ UNCHANGED chaosVars
    /\ EngineFrame

EngineNext ==
    \/ \E e \in EngineRequests, endpoint \in Endpoints, req \in EngineRequestSet,
          rl_hit \in BOOLEAN, fires \in Fires, output_tokens \in 1..MaxOutputTokens :
          EngineCall(e, endpoint, req, rl_hit, fires, output_tokens)
    \/ \E e \in EngineRequests : EngineLatencyElapsed(e)
    \/ TickSecond

(***************************************************************************)
(* The counters of EngineState under concurrent tasks.  Every fetch_add of *)
(* an engine call and every store of EngineState::reset is one step; the   *)
(* chat_completion calls are past their argument checks, and whether       *)
(* maybe_inject_error returns an error is the call's input.                *)
(* admin.reset_called is history: a reset_stats call has started.          *)
(***************************************************************************)
StatsFrame ==
    UNCHANGED <<limiterVars, drainVars, chaosVars, chatVars, httpVars, sseVars, simVars>>

\* chat_completion, line 98: self.state.increment_requests()
StatsIncrementRequests(e) ==
    /\ engine_reqs[e].pc = "new"
    /\ stats' = increment_requests(stats)
    /\ engine_reqs' = [engine_reqs EXCEPT ![e].pc = "counted",
                                          ![e].endpoint = "chat_completion"]
    /\ UNCHANGED admin
    /\ StatsFrame

\* chat_completion, lines 101-104: maybe_inject_error returned an error
StatsIncrementErrors(e) ==
    /\ engine_reqs[e].pc = "counted"
    /\ stats' = increment_errors(stats)
    /\ engine_reqs' = [engine_reqs EXCEPT ![e].pc = "done", ![e].result = "err",
                                          ![e].error = "chaos"]
    /\ UNCHANGED admin
    /\ StatsFrame

\* chat_completion, line 145: record_latency after the generator and the sleep
StatsRecordLatency(e) ==
    /\ engine_reqs[e].pc = "counted"
    /\ stats' = record_latency(stats)
    /\ engine_reqs' = [engine_reqs EXCEPT ![e].pc = "recorded", ![e].generated = TRUE]
    /\ UNCHANGED admin
    /\ StatsFrame

\* add_tokens, line 40: total_input_tokens.fetch_add(input)
StatsAddInputTokens(e) ==
    /\ engine_reqs[e].pc = "recorded"
    /\ stats' = add_tokens(stats, 1, 0)
    /\ engine_reqs' = [engine_reqs EXCEPT ![e].pc = "input_added", ![e].input_tokens = 1]
    /\ UNCHANGED admin
    /\ StatsFrame

\* add_tokens, line 41: total_output_tokens.fetch_add(output); the call returns Ok
StatsAddOutputTokens(e) ==
    /\ engine_reqs[e].pc = "input_added"
    /\ stats' = add_tokens(stats, 0, 1)
    /\ engine_reqs' = [engine_reqs EXCEPT ![e].pc = "done", ![e].result = "ok",
                                          ![e].output_tokens = 1]
    /\ UNCHANGED admin
    /\ StatsFrame

\* EngineState::reset, lines 64-68: the fields in the order they are stored
reset_order ==
    <<"total_requests", "total_errors", "total_input_tokens", "total_output_tokens",
      "latencies">>

\* the reset_stats handler: one store of EngineState::reset (the LatencyTracker is
\* replaced under its write lock)
ResetStore(i) ==
    /\ admin.reset = (IF i = 1 THEN "idle" ELSE reset_order[i - 1])
    /\ stats' = [stats EXCEPT ![reset_order[i]] = 0]
    /\ admin' = [admin EXCEPT !.reset = IF i = Len(reset_order) THEN "idle"
                                        ELSE reset_order[i],
                              !.reset_called = TRUE]
    /\ UNCHANGED engine_reqs
    /\ StatsFrame

StatsNext ==
    \/ \E e \in EngineRequests : StatsIncrementRequests(e)
    \/ \E e \in EngineRequests : StatsIncrementErrors(e)
    \/ \E e \in EngineRequests : StatsRecordLatency(e)
    \/ \E e \in EngineRequests : StatsAddInputTokens(e)
    \/ \E e \in EngineRequests : StatsAddOutputTokens(e)
    \/ \E i \in 1..Len(reset_order) : ResetStore(i)

(***************************************************************************)
(* chat_completion, lines 106-132, for one request in detail: the model    *)
(* lookup, validate, the input-token estimate and the context check, then  *)
(* the budget handed to the generator.                                     *)
(***************************************************************************)
\* the longest message text, in bytes
MaxTextLen == 8

\* messages of one request
MaxMessages == 2

\* the largest max_tokens and max_completion_tokens of a request
MaxLimit == 2

ChatRequests ==
    {Request(model, messages, max_tokens, max_completion_tokens, params_ok) :
        model \in RequestModels,
        messages \in UNION {[1..n -> 0..MaxTextLen] : n \in 0..MaxMessages},
        max_tokens \in {NoLimit} \cup 1..MaxLimit,
        max_completion_tokens \in {NoLimit} \cup 1..MaxLimit,
        params_ok \in BOOLEAN}

\* the call before its checks; max_tokens is the budget handed to the generator,
\* responses what generate_response returned each time the call was run
NewChat(req) ==
    [pc |-> "new", req |-> req, error |-> "", input_tokens |-> 0, max_tokens |-> NoLimit,
     responses |-> <<>>]

NoChat == NewChat(Request("", <<>>, NoLimit, NoLimit, TRUE))

ChatCompletionChecks ==
    /\ chat.pc = "new"
    /\ LET req   == chat.req
           error == chat_completion_check(req)
       IN  chat' = [chat EXCEPT
                       !.pc = "done",
                       !.error = error,
                       !.input_tokens =
                           IF error \in {"none", "context_length_exceeded"}
                           THEN estimate_input_tokens(req.messages) ELSE 0,
                       !.max_tokens =
                           IF error = "none"
                           THEN generator_budget(req, models[req.model]) ELSE NoLimit]
    /\ ChatFrame

ChatNext == ChatCompletionChecks

(***************************************************************************)
(* The parts a SimulationEngine holds: the config, the latency simulator   *)
(* and the response generator (src/engine/mod.rs, src/engine/generator.rs, *)
(* src/latency).  A StdRng is the stream it was seeded with and the number *)
(* of values drawn from it; the value of a draw is a function of both.     *)
(* Texts are measured in pieces of one token (4 bytes): a template, a      *)
(* paragraph and a word are one piece each.                                *)
(***************************************************************************)
\* SimulatorConfig.seed is None
NoSeed == 0 - 1

\* the seeds of a config: 0..MaxSeed
MaxSeed == 1

Seeds == 0..MaxSeed

\* the states StdRng::from_entropy can start in: 0..MaxEntropy
MaxEntropy == 1

Entropy == 0..MaxEntropy

\* the entries of a vocabulary, a template list or a paragraph list
NumChoices == 2

\* the largest min_tokens and max_tokens of a GenerationConfig
MaxGenTokens == 3

\* how often the same chat_completion call is run
MaxRuns == 2

seed_from_u64(seed) == [source |-> "seed", stream |-> seed, index |-> 0]

from_entropy(entropy) == [source |-> "entropy", stream |-> entropy, index |-> 0]

\* the state of rng after k draws
advanced(rng, k) == [rng EXCEPT !.index = @ + k]

\* rng.gen_range over n values, slice.choose over n entries: the value drawn
next_value(rng, n) == (rng.stream + rng.index) % n

\* k successive slice.choose draws of rng
choose(rng, k) == [i \in 1..k |-> next_value(advanced(rng, i - 1), NumChoices)]

Strategies == {"Template", "Lorem", "Echo", "Fixed", "Random"}

GenerationConfig(min_tokens, max_tokens, strategy) ==
    [min_tokens |-> min_tokens, max_tokens |-> max_tokens, strategy |-> strategy]

GenerationConfig_default == GenerationConfig(10, 500, "Template")

\* ResponseGenerator::new and ResponseGenerator::with_seed
ResponseGenerator_new(seed, entropy) ==
    [rng |-> IF seed # NoSeed THEN seed_from_u64(seed) ELSE from_entropy(entropy)]

ResponseGenerator_with_seed(seed) == [rng |-> seed_from_u64(seed)]

\* the text made of the given choices, one piece per choice
pieces(kind, choices) == [i \in DOMAIN choices |-> [kind |-> kind, choice |-> choices[i]]]

\* generate_lorem and generate_random_text: target_tokens words chosen by the rng given
generate_lorem(target_tokens, choices) == pieces("lorem", SubSeq(choices, 1, target_tokens))

generate_random_text(target_tokens, choices) ==
    pieces("vocab", SubSeq(choices, 1, target_tokens))

\* generate_from_templates: a template chosen by rng, paragraphs chosen by rng while the
\* text is shorter than the target, then the truncation to the target
generate_from_templates(target_tokens, rng) ==
    LET template   == pieces("template", choose(rng, 1))
        paragraphs == IF target_tokens > 1
                      THEN pieces("paragraph", choose(advanced(rng, 1), target_tokens - 1))
                      ELSE <<>>
        response   == template \o paragraphs
    IN  IF Len(response) > target_tokens THEN SubSeq(response, 1, target_tokens)
        ELSE response

\* generate_echo: the framed last message, padded with lorem words that
\* rand::thread_rng() chooses; thread are the choices thread_rng makes
generate_echo(messages, target_tokens, rng, thread) ==
    LET response == <<[kind |-> "echo", choice |-> messages[Len(messages)]]>>
    IN  IF Len(response) < target_tokens
        THEN response \o generate_lorem(target_tokens - Len(response), thread)
        ELSE response

\* estimate_tokens of generator.rs: (len / 4).ceil().max(1)
generator_estimate_tokens(content) == IF Len(content) >= 1 THEN Len(content) ELSE 1

\* generate_response, line 47: the range target_tokens is drawn from
target_range(max_tokens, generation) ==
    generation.min_tokens .. Min(generation.max_tokens, max_tokens)

\* generate_response with a non-empty target range: rng is the clone of self.rng
generate_response(generator, messages, max_tokens, generation, thread) ==
    LET rng           == generator.rng
        range         == target_range(max_tokens, generation)
        target_tokens == generation.min_tokens + next_value(rng, Cardinality(range))
        rng1          == advanced(rng, 1)
        content ==
            CASE generation.strategy = "Template" ->
                     generate_from_templates(target_tokens, rng1)
              [] generation.strategy = "Lorem" ->
                     generate_lorem(target_tokens, choose(rng1, target_tokens))
              [] generation.strategy = "Echo" ->
                     generate_echo(messages, target_tokens, rng1, thread)
              [] generation.strategy = "Fixed" -> <<[kind |-> "fixed", choice |-> 0]>>
              [] generation.strategy = "Random" ->
                     generate_random_text(target_tokens, choose(rng1, target_tokens))
    IN  [content |-> content, tokens |-> generator_estimate_tokens(content)]

\* LatencyConfig: enabled, the multiplier, and whether the ttft and itl distributions
\* of the profile in use are fixed values or random
LatencyConfig(enabled, multiplier, distribution) ==
    [enabled |-> enabled, multiplier |-> multiplier, distribution |-> distribution]

LatencyConfig_default == LatencyConfig(TRUE, 1, "normal")

\* LatencySimulator::new and LatencySimulator::with_seed
LatencySimulator_new(latency) == [config |-> latency, rng_seed |-> NoSeed]

LatencySimulator_with_seed(latency, seed) == [config |-> latency, rng_seed |-> seed]

\* SimulatorConfig: the seed, the latency and chaos sections, the generation section of
\* its models and the server port
SimulatorConfig(seed, latency, chaos_config, generation, port) ==
    [seed |-> seed, latency |-> latency, chaos |-> chaos_config, generation |-> generation,
     server |-> [port |-> port]]

SimulatorConfig_default ==
    SimulatorConfig(NoSeed, LatencyConfig_default, ChaosConfig_default,
                    GenerationConfig_default, 8080)

\* SimulationEngine::new without its chaos engine and counters; entropy is what
\* from_entropy gives an unseeded generator
SimulationEngine(cfg, entropy) ==
    [config      |-> cfg,
     latency_sim |-> IF cfg.seed # NoSeed
                     THEN LatencySimulator_with_seed(cfg.latency, cfg.seed)
                     ELSE LatencySimulator_new(cfg.latency),
     generator   |-> ResponseGenerator_new(cfg.seed, entropy)]

(***************************************************************************)
(* chat_completion, lines 124-132, run MaxRuns times for the same request  *)
(* by an engine with a small GenerationConfig.  A seeded generator starts  *)
(* every call, in this process or another one built from the same config,  *)
(* from the same rng state, since generate_response works on a clone.      *)
(***************************************************************************)
GeneratorFrame ==
    UNCHANGED <<limiterVars, drainVars, chaosVars, engineVars, httpVars, sseVars, adminVars,
                simVars>>

GenerationConfigs ==
    {GenerationConfig(min_tokens, max_tokens, strategy) :
        min_tokens \in 1..MaxGenTokens, max_tokens \in 1..MaxGenTokens,
        strategy \in Strategies}

GeneratorConfigs ==
    {SimulatorConfig(seed, LatencyConfig_default, ChaosConfig_default, generation, 8080) :
        seed \in Seeds \cup {NoSeed},
        generation \in {g \in GenerationConfigs : g.min_tokens <= g.max_tokens}}

GeneratorRequests ==
    {Request(model, <<4>>, max_tokens, NoLimit, TRUE) :
        model \in Models, max_tokens \in {NoLimit} \cup 1..MaxLimit}

\* gen_range panics on an empty range: the task of the request ends there
GenerateResponsePanics ==
    /\ chat.pc = "done"
    /\ chat.error = "none"
    /\ target_range(chat.max_tokens, engine.config.generation) = {}
    /\ chat' = [chat EXCEPT !.pc = "panicked"]
    /\ GeneratorFrame

GenerateResponse(thread) ==
    /\ chat.pc = "done"
    /\ chat.error = "none"
    /\ Len(chat.responses) < MaxRuns
    /\ target_range(chat.max_tokens, engine.config.generation) # {}
    /\ chat' = [chat EXCEPT !.responses =
                   Append(@, generate_response(engine.generator, chat.req.messages,
                                               chat.max_tokens, engine.config.generation,
                                               thread))]
    /\ GeneratorFrame

GeneratorNext ==
    \/ ChatCompletionChecks
    \/ GenerateResponsePanics
    \/ \E thread \in [1..MaxGenTokens -> 0..(NumChoices - 1)] : GenerateResponse(thread)

(***************************************************************************)
(* The request pipeline: the layer chain of create_router, the security    *)
(* middleware of src/security, and the handlers behind them.  The layers   *)
(* of one request share nothing with those of another request but the rate *)
(* limiter and the chaos engine, each called in one step here, so the       *)
(* requests are followed one after another; http is the request being       *)
(* served and http.n its number.                                            *)
(***************************************************************************)
\* HTTP requests in one behaviour
MaxHttpRequests == 3

Paths == {"/health", "/v1/chat/completions", "/admin/stats"}

\* the value of the authorization (or x-api-key) header of a request: "none" when the
\* request has neither, else a plain key, Bearer <key>, or another scheme
Credentials ==
    {"none", "sk-user", "sk-admin", "sk-invalid", "sk-off", "Bearer sk-user",
     "Basic sk-user"}

\* request.extensions().get::<ApiKeyInfo>() == None
NoKeyInfo == [id |-> "", role |-> "", tier |-> "", anonymous |-> FALSE]

\* ApiKeyInfo::anonymous
ApiKeyInfo_anonymous ==
    [id |-> "anonymous", role |-> "Readonly", tier |-> "Standard", anonymous |-> TRUE]

\* the configured ApiKeyEntry list: a user key and an admin key, and a disabled key
ApiKeyEntries ==
    {[key |-> "sk-user", id |-> "user-1", role |-> "User", enabled |-> TRUE],
     [key |-> "sk-admin", id |-> "admin-1", role |-> "Admin", enabled |-> TRUE],
     [key |-> "sk-off", id |-> "off-1", role |-> "User", enabled |-> FALSE]}

\* str::trim_start_matches: the prefix is removed as often as it matches
RECURSIVE trim_start_matches(_, _)
trim_start_matches(str, prefix) ==
    IF starts_with(str, prefix)
    THEN trim_start_matches(SubSeq(str, Len(prefix) + 1, Len(str)), prefix)
    ELSE str

\* extract_api_key: the value of the authorization or x-api-key header ("none" when the
\* request has neither), to Some(key) or None
extract_api_key(auth) ==
    IF auth = "none" THEN [some |-> FALSE, key |-> ""]
    ELSE IF starts_with(auth, "Bearer ")
    THEN [some |-> TRUE, key |-> trim_start_matches(auth, "Bearer ")]
    ELSE IF starts_with(auth, "bearer ")
    THEN [some |-> TRUE, key |-> trim_start_matches(auth, "bearer ")]
    ELSE IF ~contains(auth, " ")
    THEN [some |-> TRUE, key |-> auth]
    ELSE [some |-> FALSE, key |-> ""]

\* ApiKeyConfig::find_key: the entries with that key (at most one)
find_key(api_key) == {entry \in ApiKeyEntries : entry.key = api_key}

\* ApiKeyInfo::from_entry
ApiKeyInfo_from_entry(entry) ==
    [id |-> entry.id, role |-> entry.role, tier |-> KeyTier(entry.id), anonymous |-> FALSE]

\* ApiKeyInfo::is_admin
is_admin_or_writer(key_info) == key_info.role \in {"Admin", "User"}

is_admin(key_info) == key_info.role = "Admin"

\* is_health_endpoint: the paths exempt from authentication
is_health_endpoint_prefix(path) == Len(path) >= 1 /\ SubSeq(path, 1, 1) = "/"

is_health_endpoint(path) ==
    path \in {"/health", "/healthz", "/ready", "/readyz", "/metrics", "/", "/version"}

\* is_admin_endpoint: path.starts_with("/admin")
is_admin_endpoint(path) == Len(path) >= 6 /\ SubSeq(path, 1, 6) = "/admin"

\* the security configurations of the model
SecurityConfigs ==
    [api_keys : [enabled : BOOLEAN, allow_anonymous_health : BOOLEAN],
     admin : [require_admin_key : BOOLEAN],
     rate_limiting : [enabled : BOOLEAN]]

\* SecurityConfig::default
SecurityConfig_default ==
    [api_keys |-> [enabled |-> FALSE, allow_anonymous_health |-> TRUE],
     admin |-> [require_admin_key |-> TRUE],
     rate_limiting |-> [enabled |-> TRUE]]

NewHttpRequest ==
    [n |-> 0, at |-> 0, path |-> "", credential |-> "none", preflight |-> FALSE,
     key_info |-> NoKeyInfo, charged |-> "", trace |-> <<>>, status |-> 0, by |-> "",
     auth_error |-> ""]

\* the router before any request
Pipeline_new(cfg) ==
    /\ security = cfg
    /\ http = NewHttpRequest

(***************************************************************************)
(* RateLimiter::try_acquire(key, tier) run without interruption:           *)
(* get_bucket, refill, try_consume.  The result is the limiter's state     *)
(* after the call and whether the request was allowed.                     *)
(***************************************************************************)
try_acquire(key, tier) ==
    IF tier = "Unlimited"
    THEN [allowed |-> TRUE, buckets |-> buckets, bucket_store |-> bucket_store,
          consumed |-> consumed, refilled |-> refilled]
    ELSE LET cfg    == get_tier_config(tier)
             isnew  == buckets[key] = 0
             id     == IF isnew THEN Len(bucket_store) + 1 ELSE buckets[key]
             store1 == IF isnew
                       THEN Append(bucket_store,
                                   TokenBucket_new(cfg.burst_size, cfg.requests_per_minute, key))
                       ELSE bucket_store
             cons1  == IF isnew THEN Append(consumed, 0) ELSE consumed
             ref1   == IF isnew THEN Append(refilled, 0) ELSE refilled
             b      == store1[id]
             added  == new_tokens(now_ms, b.last_refill, b.rpm)
             b1     == IF added > 0
                       THEN [b EXCEPT !.last_refill = now_ms,
                                      !.tokens = new_count(b.tokens, added, b.capacity)]
                       ELSE b
             ok     == ~refuses(b1.tokens, 1)
             b2     == IF ok THEN [b1 EXCEPT !.tokens = @ - 1] ELSE b1
         IN  [allowed      |-> ok,
              buckets      |-> [buckets EXCEPT ![key] = id],
              bucket_store |-> [store1 EXCEPT ![id] = b2],
              consumed     |-> IF ok THEN [cons1 EXCEPT ![id] = @ + 1] ELSE cons1,
              refilled     |-> IF added > 0 THEN [ref1 EXCEPT ![id] = @ + added] ELSE ref1]

LimiterUntouched == UNCHANGED <<buckets, bucket_store, consumed, refilled>>

\* the request is handed to the next layer (next.run), or to the handler after the last
Forward(name) == [http EXCEPT !.at = @ + 1, !.trace = Append(@, name)]

\* the layer answers the request itself
Respond(name, status) ==
    [http EXCEPT !.at = Len(layers) + 2, !.trace = Append(@, name),
                 !.status = status, !.by = name]

AtLayer(names) ==
    /\ http.at \in 1..Len(layers)
    /\ layers[http.at] \in names

\* the next request reaches the router; a CORS preflight is an OPTIONS request
HttpArrive(path, credential, preflight) ==
    /\ http.at \in {0, Len(layers) + 2}
    /\ http.n < MaxHttpRequests
    /\ http' = [NewHttpRequest EXCEPT !.n = http.n + 1, !.at = 1, !.path = path,
                                      !.credential = credential, !.preflight = preflight]
    /\ LimiterUntouched
    /\ UNCHANGED <<chaosVars, stats>>
    /\ HttpFrame

\* TraceLayer, CompressionLayer, TimeoutLayer: the request goes on inwards
TowerLayer ==
    /\ AtLayer({"trace", "compression", "timeout"})
    /\ http' = Forward(layers[http.at])
    /\ LimiterUntouched
    /\ UNCHANGED <<chaosVars, stats>>
    /\ HttpFrame

\* CorsLayer (build_cors_layer): a preflight is answered here, other requests go on
CorsLayer ==
    /\ AtLayer({"cors"})
    /\ http' = IF http.preflight THEN Respond("cors", 200) ELSE Forward("cors")
    /\ LimiterUntouched
    /\ UNCHANGED <<chaosVars, stats>>
    /\ HttpFrame

\* security_headers_middleware: runs the inner service, then adds its headers
SecurityHeadersMiddleware ==
    /\ AtLayer({"security_headers"})
    /\ http' = Forward("security_headers")
    /\ LimiterUntouched
    /\ UNCHANGED <<chaosVars, stats>>
    /\ HttpFrame

\* rate_limit_middleware, lines 273-275: the ApiKeyInfo of the request's extensions,
\* or ApiKeyInfo::anonymous() when there is none
rate_limit_key_info ==
    IF http.key_info = NoKeyInfo THEN ApiKeyInfo_anonymous ELSE http.key_info

\* rate_limit_middleware
RateLimitMiddleware ==
    /\ AtLayer({"rate_limit"})
    /\ IF ~security.rate_limiting.enabled
       THEN /\ http' = Forward("rate_limit")
            /\ LimiterUntouched
       ELSE LET key_info == rate_limit_key_info
                res      == try_acquire(key_info.id, key_info.tier)
            IN  /\ buckets' = res.buckets
                /\ bucket_store' = res.bucket_store
                /\ consumed' = res.consumed
                /\ refilled' = res.refilled
                /\ http' = IF res.allowed
                           THEN [Forward("rate_limit") EXCEPT !.charged = key_info.id]
                           ELSE [Respond("rate_limit", 429) EXCEPT !.charged = key_info.id]
    /\ UNCHANGED <<chaosVars, stats>>
    /\ HttpFrame

\* AuthError::into_response: the status of each error of the enum
AuthError_status(error) ==
    IF error = "InsufficientPermissions" THEN 403 ELSE 401

\* api_key_auth_middleware returns Err(error)
Reject(error) ==
    [Respond("api_key_auth", AuthError_status(error)) EXCEPT !.auth_error = error]

\* api_key_auth_middleware
ApiKeyAuthMiddleware ==
    /\ AtLayer({"api_key_auth"})
    /\ http' =
           IF security.api_keys.allow_anonymous_health /\ is_health_endpoint(http.path)
           THEN [Forward("api_key_auth") EXCEPT !.key_info = ApiKeyInfo_anonymous]
           ELSE IF ~security.api_keys.enabled
           THEN [Forward("api_key_auth") EXCEPT !.key_info = ApiKeyInfo_anonymous]
           ELSE LET api_key == extract_api_key(http.credential)
                IN  IF ~api_key.some
                    THEN Reject("MissingHeader")
                    ELSE IF find_key(api_key.key) = {}
                    THEN Reject("InvalidKey")
                    ELSE LET entry == CHOOSE entry \in find_key(api_key.key) : TRUE
                         IN  IF ~entry.enabled
                             THEN Reject("KeyDisabled")
                             ELSE [Forward("api_key_auth") EXCEPT
                                       !.key_info = ApiKeyInfo_from_entry(entry)]
    /\ LimiterUntouched
    /\ UNCHANGED <<chaosVars, stats>>
    /\ HttpFrame

\* admin_auth_middleware
AdminAuthMiddleware ==
    /\ AtLayer({"admin_auth"})
    /\ http' =
           IF ~is_admin_endpoint(http.path)
           THEN Forward("admin_auth")
           ELSE IF ~security.admin.require_admin_key
           THEN Forward("admin_auth")
           ELSE LET key_info == IF http.key_info = NoKeyInfo
                                THEN ApiKeyInfo_anonymous ELSE http.key_info
                IN  IF ~is_admin(key_info)
                    THEN Respond("admin_auth", 403)
                    ELSE Forward("admin_auth")
    /\ LimiterUntouched
    /\ UNCHANGED <<chaosVars, stats>>
    /\ HttpFrame

\* SimulationError::into_response for the errors of maybe_inject_error
error_status(error) ==
    CASE error = "service_unavailable" -> 503
      [] error = "rate_limit_exceeded" -> 429
      [] error = "injected"            -> 500
      [] error = "none"                -> 200

(***************************************************************************)
(* The handler of the route.  openai_chat_completions calls               *)
(* chat_completion with a valid request of one four-byte message for a     *)
(* configured model: increment_requests, maybe_inject_error, and either    *)
(* increment_errors and the error's status, or the sleep, record_latency,  *)
(* add_tokens and 200.  health_check and get_stats answer 200.             *)
(***************************************************************************)
Handler(model, rl_hit, fires) ==
    /\ http.at = Len(layers) + 1
    /\ IF http.path = "/v1/chat/completions"
       THEN /\ maybe_inject_error(model, "/chat/completions", rl_hit, fires)
            /\ http' = [Respond("handler", error_status(injected')) EXCEPT
                            !.trace = Append(@, "chaos")]
            /\ stats' = IF injected' # "none"
                        THEN increment_errors(increment_requests(stats))
                        ELSE add_tokens(record_latency(increment_requests(stats)),
                                        estimate_input_tokens(<<4>>), 1)
       ELSE /\ http' = Respond("handler", 200)
            /\ UNCHANGED <<chaosVars, stats>>
    /\ LimiterUntouched
    /\ HttpFrame

PipelineNext ==
    \/ \E path \in Paths, credential \in Credentials, preflight \in BOOLEAN :
          HttpArrive(path, credential, preflight)
    \/ TowerLayer
    \/ CorsLayer
    \/ SecurityHeadersMiddleware
    \/ RateLimitMiddleware
    \/ ApiKeyAuthMiddleware
    \/ AdminAuthMiddleware
    \/ \E model \in Models, rl_hit \in BOOLEAN, fires \in Fires :
          Handler(model, rl_hit, fires)

(***************************************************************************)
(* Streaming responses: StreamingResponse::into_chunks and the three SSE   *)
(* streams of src/server/streaming.rs.  One call of a stream's unfold      *)
(* closure (one poll that yields an event or ends the stream) is one step. *)
(***************************************************************************)
\* tokens of one streaming response
MaxTokens == 2

\* the token strings (ResponseGenerator::tokenize never yields an empty token)
TokenAlphabet == {"Hel", "lo "}

TokenSeqs == UNION {[1..n -> TokenAlphabet] : n \in 0..MaxTokens}

\* ChatCompletionChunk: delta.role, delta.content (has_content = Some), finish_reason, usage
RoleChunk ==
    [role |-> TRUE, has_content |-> FALSE, content |-> "", finish_reason |-> FALSE,
     usage |-> FALSE]

ContentChunk(token) ==
    [role |-> FALSE, has_content |-> TRUE, content |-> token, finish_reason |-> FALSE,
     usage |-> FALSE]

FinishChunk ==
    [role |-> FALSE, has_content |-> FALSE, content |-> "", finish_reason |-> TRUE,
     usage |-> TRUE]

\* the largest latency the sampler draws, and how late the runtime wakes a sleeping
\* stream when it is late, in ticks of the clock
MaxDelay == 1

MaxLate == 1

Delays == 0..MaxDelay

\* LatencySimulator::sample_ttft; sample is what the distribution sampler draws
sample_ttft(enabled, sample) == IF ~enabled THEN 0 ELSE sample

\* LatencySimulator::overhead
overhead(enabled, profile_overhead) == IF ~enabled THEN 0 ELSE profile_overhead

\* LatencySimulator::sample_itl
sample_itl_ignoring_enabled(enabled, sample) == sample

sample_itl(enabled, sample) == IF ~enabled THEN 0 ELSE sample

\* LatencySimulator::generate_schedule; itl are the samples of the token_count draws
generate_schedule(token_count, enabled, ttft, profile_overhead, itl) ==
    [ttft         |-> sample_ttft(enabled, ttft),
     overhead     |-> overhead(enabled, profile_overhead),
     token_delays |-> [i \in 1..token_count |-> sample_itl(enabled, itl[i])]]

\* LatencySchedule::instant
instant(token_count) ==
    [ttft |-> 0, overhead |-> 0, token_delays |-> [i \in 1..token_count |-> 0]]

\* self.token_delays.iter().sum()
RECURSIVE sum(_)
sum(durations) ==
    IF durations = <<>> THEN 0 ELSE Head(durations) + sum(Tail(durations))

\* LatencySchedule::total_duration
total_duration(schedule) ==
    schedule.ttft + schedule.overhead + sum(schedule.token_delays)

\* self.schedule.token_delays.get(i).copied().unwrap_or(Duration::ZERO)
token_delay(schedule, i) ==
    IF i <= Len(schedule.token_delays) THEN schedule.token_delays[i] ELSE 0

\* StreamingResponse::into_chunks: the (delay, chunk) pairs
into_chunks_without_finish(tokens, schedule) ==
    <<<<schedule.ttft + schedule.overhead, RoleChunk>>>>
      \o [i \in 1..Len(tokens) |-> <<token_delay(schedule, i), ContentChunk(tokens[i])>>]

into_chunks(tokens, schedule) ==
    <<<<schedule.ttft + schedule.overhead, RoleChunk>>>>
      \o [i \in 1..Len(tokens) |-> <<token_delay(schedule, i), ContentChunk(tokens[i])>>]
      \o <<<<0, FinishChunk>>>>

\* an SSE event: its event: type ("" when it has only a data: line) and what its data
\* carries; chunk and at are history, the index of the chunk it was made from (0 = none)
\* and the clock when it was yielded
Event(type, data, text, finish_reason, usage, chunk, at) ==
    [event |-> type, data |-> data, text |-> text, finish_reason |-> finish_reason,
     usage |-> usage, chunk |-> chunk, at |-> at]

\* now is the clock, in ticks since the engine was called
NoStream ==
    [format |-> "none", state |-> "idle", tokens |-> <<>>, latency_enabled |-> FALSE,
     schedule |-> instant(0), chunks |-> <<>>, iter |-> 1, index |-> 0,
     started |-> FALSE, done |-> FALSE, events |-> <<>>, now |-> 0, draws |-> <<>>]

\* the stream as its create function returns it: the chunks, an iterator at the first
NewStream(format, tokens, schedule) ==
    [NoStream EXCEPT !.format = format, !.state = "open", !.tokens = tokens,
                     !.schedule = schedule, !.chunks = into_chunks(tokens, schedule)]

\* a streaming handler: chat_completion_stream for a valid request of one four-byte
\* message (increment_requests, generate_schedule for the tokens, add_tokens), then
\* create_sse_stream, create_anthropic_sse_stream or create_gemini_sse_stream
CreateStream(format, tokens, enabled, ttft, profile_overhead, itl) ==
    /\ sse.state = "idle"
    /\ stats' = add_tokens(increment_requests(stats), estimate_input_tokens(<<4>>),
                           Len(tokens))
    /\ sse' = [NewStream(format, tokens,
                         generate_schedule(Len(tokens), enabled, ttft, profile_overhead,
                                           itl))
                  EXCEPT !.latency_enabled = enabled]
    /\ StreamFrame

Emit(event) == [sse EXCEPT !.events = Append(@, event)]

\* iter.next() returns Some
HasNext == sse.iter <= Len(sse.chunks)

\* if delay > Duration::ZERO { sleep(delay).await; }: the clock when the closure goes on,
\* late ticks after the deadline
apply_delay_never(now, delay, late) == now + late

apply_delay(now, delay, late) == (IF delay > 0 THEN now + delay ELSE now) + late

\* create_sse_stream: one call of the closure
OpenAiPoll(late) ==
    /\ sse.format = "openai"
    /\ sse.state = "open"
    /\ sse' =
         IF sse.done
         THEN [sse EXCEPT !.state = "ended"]
         ELSE IF HasNext
         THEN LET delay == sse.chunks[sse.iter][1]
                  chunk == sse.chunks[sse.iter][2]
                  at    == apply_delay(sse.now, delay, late)
              IN  [Emit(Event("", IF chunk.role THEN "role"
                                  ELSE IF chunk.finish_reason THEN "finish" ELSE "content",
                              chunk.content,
                              IF chunk.finish_reason THEN "stop" ELSE "",
                              chunk.usage, sse.iter, at))
                      EXCEPT !.iter = @ + 1, !.now = at]
         ELSE [Emit(Event("", "[DONE]", "", "", FALSE, 0, sse.now)) EXCEPT !.done = TRUE]
    /\ UNCHANGED stats
    /\ StreamFrame

\* create_anthropic_sse_stream: one call of the closure
AnthropicPoll(late) ==
    /\ sse.format = "anthropic"
    /\ sse.state = "open"
    /\ sse' =
         IF sse.done
         THEN [sse EXCEPT !.state = "ended"]
         ELSE IF ~sse.started
         THEN [Emit(Event("message_start", "message", "", "", TRUE, 0, sse.now))
                  EXCEPT !.started = TRUE, !.index = 0]
         ELSE IF HasNext
         THEN LET delay   == sse.chunks[sse.iter][1]
                  chunk   == sse.chunks[sse.iter][2]
                  at      == apply_delay(sse.now, delay, late)
                  content == IF chunk.has_content THEN chunk.content ELSE ""
                  taken   == [sse EXCEPT !.iter = @ + 1, !.now = at]
              IN  IF content = "" /\ ~chunk.finish_reason
                  THEN [taken EXCEPT !.events =
                            Append(@, Event("ping", "{}", "", "", FALSE, sse.iter, at))]
                  ELSE IF chunk.finish_reason
                  THEN [taken EXCEPT !.done = TRUE, !.events =
                            Append(@, Event("content_block_stop", "index 0", "", "", FALSE,
                                            sse.iter, at))]
                  ELSE IF sse.index = 0
                  THEN [taken EXCEPT !.index = @ + 1, !.events =
                            Append(@, Event("content_block_start", "text", "", "", FALSE,
                                            sse.iter, at))]
                  ELSE [taken EXCEPT !.index = @ + 1, !.events =
                            Append(@, Event("content_block_delta", "text_delta", content, "",
                                            FALSE, sse.iter, at))]
         ELSE [Emit(Event("message_stop", "", "", "", FALSE, 0, sse.now))
                  EXCEPT !.done = TRUE]
    /\ UNCHANGED stats
    /\ StreamFrame

\* create_gemini_sse_stream, lines 189-191: finish_reason.map(|_| "STOP")
gemini_finish_reason_none(chunk) == ""

gemini_finish_reason(chunk) == IF chunk.finish_reason THEN "STOP" ELSE ""

\* create_gemini_sse_stream: one call of the closure
GeminiPoll(late) ==
    /\ sse.format = "gemini"
    /\ sse.state = "open"
    /\ sse' =
         IF HasNext
         THEN LET delay   == sse.chunks[sse.iter][1]
                  chunk   == sse.chunks[sse.iter][2]
                  at      == apply_delay(sse.now, delay, late)
                  content == IF chunk.has_content THEN chunk.content ELSE ""
              IN  [Emit(Event("", "candidate", content, gemini_finish_reason(chunk),
                              chunk.usage, sse.iter, at))
                      EXCEPT !.iter = @ + 1, !.now = at]
         ELSE [sse EXCEPT !.state = "ended"]
    /\ UNCHANGED stats
    /\ StreamFrame

\* the client drops the connection: axum drops the stream, no closure call follows and
\* nothing else runs for the request
StreamDropped ==
    /\ sse.state = "open"
    /\ sse' = [sse EXCEPT !.state = "dropped"]
    /\ UNCHANGED stats
    /\ StreamFrame

\* streams of any tokens, with latency disabled and a runtime that is never late
StreamNext ==
    \/ \E format \in {"openai", "anthropic", "gemini"}, tokens \in TokenSeqs :
          CreateStream(format, tokens, FALSE, 0, 0, [i \in 1..Len(tokens) |-> 0])
    \/ OpenAiPoll(0)
    \/ AnthropicPoll(0)
    \/ GeminiPoll(0)
    \/ StreamDropped

\* streams of 0..MaxTokens equal tokens, with any latency samples and a runtime that
\* wakes the stream on time or MaxLate ticks late
TimedStreamNext ==
    \/ \E format \in {"openai", "anthropic", "gemini"}, n \in 0..MaxTokens,
          enabled \in BOOLEAN, ttft \in Delays, profile_overhead \in Delays :
          \E itl \in [1..n -> Delays] :
             CreateStream(format, [i \in 1..n |-> "Hel"], enabled, ttft,
                          profile_overhead, itl)
    \/ \E late \in {0, MaxLate} : OpenAiPoll(late)
    \/ \E late \in {0, MaxLate} : AnthropicPoll(late)
    \/ \E late \in {0, MaxLate} : GeminiPoll(late)
    \/ StreamDropped

\* the chaos configurations of the engine and the pipeline: chaos off, or on with breakers
PipelineChaosConfigs ==
    {ChaosConfig_default,
     [enabled |-> TRUE,
      global_probability_positive |-> TRUE,
      circuit_breaker |-> [enabled |-> TRUE, failure_threshold |-> 1,
                           failure_window_secs |-> 1, recovery_timeout_secs |-> 0,
                           success_threshold |-> 1, per_model |-> TRUE],
      rate_limiting |-> [enabled |-> TRUE],
      errors |-> <<ServerErrorRule>>]}

(***************************************************************************)
(* SimulationEngine::update_config and the POST /admin/config handler.     *)
(* update_config takes &mut self, so it runs alone on the engine.          *)
(* admin.update_config and admin.post_config are what the last call of     *)
(* each returned.                                                          *)
(***************************************************************************)
\* SimulatorConfig::validate: the parameter of the first check that fails, in the order
\* server, latency, chaos (the models and latency profiles are the built-in ones)
SimulatorConfig_validate_never(cfg) == "ok"

SimulatorConfig_validate(cfg) ==
    IF cfg.server.port = 0 THEN "server.port"
    ELSE IF cfg.latency.multiplier < 0 THEN "latency.multiplier"
    ELSE IF cfg.chaos.circuit_breaker.failure_threshold = 0
    THEN "chaos.circuit_breaker.failure_threshold"
    ELSE "ok"

UpdateConfigFrame ==
    UNCHANGED <<limiterVars, drainVars, engineVars, chatVars, httpVars, sseVars>>

\* SimulationEngine::update_config(new)
UpdateConfig(new) ==
    /\ IF SimulatorConfig_validate(new) # "ok"
       THEN /\ admin' = [admin EXCEPT !.update_config = "validation"]
            /\ UNCHANGED <<simVars, chaosVars>>
       ELSE /\ engine' =
                   [config      |-> new,
                    latency_sim |-> IF new.seed # NoSeed
                                    THEN LatencySimulator_with_seed(new.latency, new.seed)
                                    ELSE LatencySimulator_new(new.latency),
                    generator   |-> IF new.seed # NoSeed
                                    THEN ResponseGenerator_with_seed(new.seed)
                                    ELSE engine.generator]
            /\ config' = new.chaos
            /\ circuit_breakers' = [k \in BreakerKeys |-> NoBreaker]
            /\ request_counter' = 0
            /\ UNCHANGED <<now_s, injected, chaos_call>>
            /\ admin' = [admin EXCEPT !.update_config = "ok"]
    /\ UpdateConfigFrame

\* the update_config handler of POST /admin/config: SimulationError::Internal whatever
\* the body, the engine is not called
PostAdminConfig(new) ==
    /\ admin' = [admin EXCEPT !.post_config = "internal"]
    /\ UNCHANGED <<simVars, chaosVars>>
    /\ UpdateConfigFrame

\* a chaos section whose circuit breaker does not validate
ChaosConfig_zero_threshold ==
    [ChaosConfig_default EXCEPT !.circuit_breaker.failure_threshold = 0]

\* the configs an engine is built from and updated to: the valid ones, and a seeded
\* config with one section that does not validate
ValidConfigs ==
    {SimulatorConfig(seed, LatencyConfig(enabled, 1, "normal"), chaos_config,
                     GenerationConfig_default, 8080) :
        seed \in Seeds \cup {NoSeed}, enabled \in BOOLEAN,
        chaos_config \in PipelineChaosConfigs}

InvalidConfigs ==
    {SimulatorConfig(0, LatencyConfig_default, ChaosConfig_default,
                     GenerationConfig_default, 0),
     SimulatorConfig(0, LatencyConfig(TRUE, 0 - 1, "normal"), ChaosConfig_default,
                     GenerationConfig_default, 8080),
     SimulatorConfig(0, LatencyConfig_default, ChaosConfig_zero_threshold,
                     GenerationConfig_default, 8080)}

UpdateConfigs == ValidConfigs \cup InvalidConfigs

UpdateConfigNext ==
    \/ \E new \in UpdateConfigs : UpdateConfig(new)
    \/ \E new \in UpdateConfigs : PostAdminConfig(new)
    \/ \E model \in Models, rl_hit \in BOOLEAN, fires \in Fires :
          MaybeInjectError(model, "/chat/completions", rl_hit, fires)
    \/ \E model \in Models, same_instant \in BOOLEAN : RecordFailure(model, same_instant)

(***************************************************************************)
(* generate_schedule as the engine's LatencySimulator computes it: every   *)
(* sample_ttft and sample_itl call makes a DistributionSampler of its own  *)
(* (create_sampler), and DistributionSampler::sample draws from a clone of *)
(* that sampler's rng.  sse.draws is history: the rng state each draw of   *)
(* the schedule read.                                                      *)
(***************************************************************************)
\* LatencySimulator::create_sampler: the rng of the sampler it returns
create_sampler(sim, entropy) ==
    IF sim.rng_seed # NoSeed THEN seed_from_u64(sim.rng_seed) ELSE from_entropy(entropy)

\* DistributionSampler::sample: a Fixed distribution returns its value and draws
\* nothing, the others draw once from the clone of rng
DistributionSampler_sample(rng, distribution) ==
    IF distribution = "fixed" THEN MaxDelay ELSE next_value(rng, MaxDelay + 1)

\* the rng states the draws of a schedule of token_count tokens read, the ttft first;
\* entropy[k] is what from_entropy gives the k-th sampler of an unseeded simulator
schedule_draws(sim, token_count, entropy) ==
    IF sim.config.enabled /\ sim.config.distribution # "fixed"
    THEN [k \in 1..(token_count + 1) |-> create_sampler(sim, entropy[k])]
    ELSE <<>>

\* LatencySimulator::generate_schedule with the samplers it creates
LatencySimulator_generate_schedule(sim, token_count, profile_overhead, entropy) ==
    LET sample(k) ==
            DistributionSampler_sample(create_sampler(sim, entropy[k]),
                                       sim.config.distribution) * sim.config.multiplier
    IN  generate_schedule(token_count, sim.config.enabled, sample(1),
                          profile_overhead * sim.config.multiplier,
                          [i \in 1..token_count |-> sample(i + 1)])

\* chat_completion_stream, line 204, and the stream made from the schedule
CreateSampledStream(format, tokens, profile_overhead, entropy) ==
    /\ sse.state = "idle"
    /\ stats' = add_tokens(increment_requests(stats), estimate_input_tokens(<<4>>),
                           Len(tokens))
    /\ sse' = [NewStream(format, tokens,
                         LatencySimulator_generate_schedule(engine.latency_sim, Len(tokens),
                                                            profile_overhead, entropy))
                  EXCEPT !.latency_enabled = engine.latency_sim.config.enabled,
                         !.draws = schedule_draws(engine.latency_sim, Len(tokens), entropy)]
    /\ StreamFrame

\* from_entropy gives every sampler of one schedule a state of its own
SamplerEntropy ==
    {entropy \in [1..(MaxTokens + 1) -> 0..MaxTokens] :
        \A i, j \in DOMAIN entropy : i # j => entropy[i] # entropy[j]}

ScheduleConfigs ==
    {SimulatorConfig(seed, LatencyConfig(enabled, 1, distribution), ChaosConfig_default,
                     GenerationConfig_default, 8080) :
        seed \in Seeds \cup {NoSeed}, enabled \in BOOLEAN,
        distribution \in {"fixed", "normal"}}

ScheduleNext ==
    \E format \in {"openai", "anthropic", "gemini"}, n \in 0..MaxTokens,
       profile_overhead \in Delays, entropy \in SamplerEntropy :
       CreateSampledStream(format, [i \in 1..n |-> "Hel"], profile_overhead, entropy)

(***************************************************************************)
(* Specifications.                                                         *)
(***************************************************************************)
\* ServerConfig::default, request_timeout = 300 s: run_server's drain timeout
DefaultRequestTimeoutMs == 300000

\* each subsystem as constructed, while another one is exercised
LimiterIdle == RateLimiter_new

DrainIdle == ShutdownState_new(DefaultRequestTimeoutMs, create_router)

ChaosIdle == ChaosEngine_new(ChaosConfig_default)

EngineIdle == SimulationEngine_new /\ chat = NoChat

HttpIdle == Pipeline_new(SecurityConfig_default)

SseIdle == sse = NoStream

AdminIdle == admin = NoAdmin

SimIdle == engine = SimulationEngine(SimulatorConfig_default, 0)

\* the rate limiter under concurrent try_acquire calls
LimiterInit ==
    /\ RateLimiter_new
    /\ DrainIdle
    /\ ChaosIdle
    /\ EngineIdle
    /\ HttpIdle
    /\ SseIdle
    /\ AdminIdle
    /\ SimIdle

SpecLimiter == LimiterInit /\ [][LimiterNext]_vars

\* the server as run_server builds it
ServerInit ==
    /\ LimiterIdle
    /\ ChaosIdle
    /\ EngineIdle
    /\ HttpIdle
    /\ SseIdle
    /\ AdminIdle
    /\ SimIdle
    /\ \E timeout \in DrainTimeouts : ShutdownState_new(timeout, create_router)

SpecServer == ServerInit /\ [][ServerNext]_vars

\* a server whose router carries request_tracking_middleware
TrackedInit ==
    /\ LimiterIdle
    /\ ChaosIdle
    /\ EngineIdle
    /\ HttpIdle
    /\ SseIdle
    /\ AdminIdle
    /\ SimIdle
    /\ \E timeout \in DrainTimeouts : ShutdownState_new(timeout, TrackedRouter)

SpecTracked == TrackedInit /\ [][TrackedNext]_vars

\* the ShutdownState of a running server under any calls of its operations
SpecShutdownApi == TrackedInit /\ [][ShutdownApiNext]_vars

\* the chaos engine under any sequence of calls of its public operations
ChaosInit ==
    /\ LimiterIdle
    /\ DrainIdle
    /\ EngineIdle
    /\ HttpIdle
    /\ SseIdle
    /\ AdminIdle
    /\ SimIdle
    /\ \E cfg \in ChaosConfigs : ChaosEngine_new(cfg)

SpecChaos == ChaosInit /\ [][ChaosNext]_vars

\* a chaos engine with a list of injection rules, breakers that open on the first
\* failure, and the chaos rate limiter on or off
RulesInit ==
    /\ LimiterIdle
    /\ DrainIdle
    /\ EngineIdle
    /\ HttpIdle
    /\ SseIdle
    /\ AdminIdle
    /\ SimIdle
    /\ \E cfg \in RuleConfigs : ChaosEngine_new(cfg)

SpecRules == RulesInit /\ [][RulesNext]_vars

\* the simulation engine serving calls, with any chaos configuration
EngineInit ==
    /\ LimiterIdle
    /\ DrainIdle
    /\ EngineIdle
    /\ HttpIdle
    /\ SseIdle
    /\ AdminIdle
    /\ SimIdle
    /\ \E cfg \in PipelineChaosConfigs : ChaosEngine_new(cfg)

SpecEngine == EngineInit /\ [][EngineNext]_vars

\* engine calls and reset_stats running concurrently on the counters
StatsInit ==
    /\ LimiterIdle
    /\ DrainIdle
    /\ ChaosIdle
    /\ EngineIdle
    /\ HttpIdle
    /\ SseIdle
    /\ AdminIdle
    /\ SimIdle

SpecStats == StatsInit /\ [][StatsNext]_vars

\* chat_completion called with any request, chaos disabled
ChatInit ==
    /\ LimiterIdle
    /\ DrainIdle
    /\ ChaosIdle
    /\ SimulationEngine_new
    /\ \E req \in ChatRequests : chat = NewChat(req)
    /\ HttpIdle
    /\ SseIdle
    /\ AdminIdle
    /\ SimIdle

SpecChat == ChatInit /\ [][ChatNext]_vars

\* an engine with any small generation config, seeded or not, running one request
GeneratorInit ==
    /\ LimiterIdle
    /\ DrainIdle
    /\ ChaosIdle
    /\ SimulationEngine_new
    /\ \E req \in GeneratorRequests : chat = NewChat(req)
    /\ HttpIdle
    /\ SseIdle
    /\ AdminIdle
    /\ \E cfg \in GeneratorConfigs, entropy \in Entropy :
          engine = SimulationEngine(cfg, entropy)

SpecGenerator == GeneratorInit /\ [][GeneratorNext]_vars

\* the router of create_router serving requests, with any security configuration
PipelineInit ==
    /\ LimiterIdle
    /\ DrainIdle
    /\ EngineIdle
    /\ \E cfg \in PipelineChaosConfigs : ChaosEngine_new(cfg)
    /\ \E cfg \in SecurityConfigs : Pipeline_new(cfg)
    /\ SseIdle
    /\ AdminIdle
    /\ SimIdle

SpecPipeline == PipelineInit /\ [][PipelineNext]_vars

\* one streaming response of any of the three formats, for any token sequence
StreamInit ==
    /\ LimiterIdle
    /\ DrainIdle
    /\ ChaosIdle
    /\ EngineIdle
    /\ HttpIdle
    /\ sse = NoStream
    /\ AdminIdle
    /\ SimIdle

SpecStream == StreamInit /\ [][StreamNext]_vars

\* one streaming response on its latency schedule
SpecTimedStream == StreamInit /\ [][TimedStreamNext]_vars

\* an engine built from any valid config, its chaos engine in use, being reconfigured
UpdateConfigInit ==
    /\ LimiterIdle
    /\ DrainIdle
    /\ EngineIdle
    /\ HttpIdle
    /\ SseIdle
    /\ AdminIdle
    /\ \E cfg \in ValidConfigs, entropy \in Entropy :
          /\ engine = SimulationEngine(cfg, entropy)
          /\ ChaosEngine_new(cfg.chaos)

SpecUpdateConfig == UpdateConfigInit /\ [][UpdateConfigNext]_vars

\* the streams an engine creates on the schedules of its own latency simulator
ScheduleInit ==
    /\ LimiterIdle
    /\ DrainIdle
    /\ ChaosIdle
    /\ EngineIdle
    /\ HttpIdle
    /\ SseIdle
    /\ AdminIdle
    /\ \E cfg \in ScheduleConfigs : engine = SimulationEngine(cfg, 0)

SpecSchedule == ScheduleInit /\ [][ScheduleNext]_vars

\* the runtime keeps scheduling the shutdown task and its timer
SpecTrackedFair ==
    SpecTracked /\ WF_vars(WaitForDrainPoll) /\ WF_vars(WaitForDrainSleep)

BucketIds == 1..Len(bucket_store)

\* C1: in every interleaving of try_consume calls (each with its lazy refill) the
\* token count of every bucket stays within [0, capacity].
C1_TokensWithinCapacity ==
    \A b \in BucketIds :
        /\ bucket_store[b].tokens >= 0
        /\ bucket_store[b].tokens <= bucket_store[b].capacity

\* a refill has stored into a bucket that consumes had taken from and the bucket
\* is at its capacity, while another task is inside try_consume on it
C1_Witness ==
    \E b \in BucketIds :
        /\ refilled[b] >= 1
        /\ consumed[b] >= 1
        /\ bucket_store[b].tokens = bucket_store[b].capacity
        /\ \E t \in Threads : th[t].bucket = b /\ th[t].pc \in {"c_load", "c_cas"}

\* C2: a refill is atomic with respect to concurrent consumes: a token taken by a
\* successful try_consume is never given back by a refill (tokens left plus tokens
\* taken never exceed the initial capacity plus the tokens refills added), so the
\* number of successful single-token consumes never exceeds capacity plus refills.
C2_NoTokenGivenBack ==
    \A b \in BucketIds :
        /\ consumed[b] + bucket_store[b].tokens <= bucket_store[b].capacity + refilled[b]
        /\ consumed[b] <= bucket_store[b].capacity + refilled[b]

\* C3: whatever the number of concurrent first-use try_acquire calls of a key, one
\* bucket is created for the key and every caller decrements that bucket.
C3_OneBucketPerKey ==
    /\ \A k \in Keys : Cardinality({b \in BucketIds : bucket_store[b].key = k}) <= 1
    /\ \A b \in BucketIds : consumed[b] > 0 => buckets[bucket_store[b].key] = b

\* C4: once start_drain has been called, every new request that reaches the router
\* is rejected with HTTP 503 and reaches no handler.
C4_NewRequestsRejectedWhenDraining ==
    \A r \in Requests :
        reqs[r].after_drain =>
            /\ reqs[r].pc \in {"mw_check", "done"}
            /\ reqs[r].pc = "done" => reqs[r].exit = "rejected_503"

\* the requests admitted before start_drain that are executing in a handler
ExecutingAdmittedBeforeDrain ==
    {r \in Requests : ~reqs[r].after_drain /\ reqs[r].pc = "handler"}

\* C5: a request admitted before start_drain is counted in in_flight while it executes,
\* and wait_for_drain returns while such a request executes only when forced by the
\* drain timeout.
C5_InFlightCountedDuringDrain ==
    /\ in_flight >= Cardinality(ExecutingAdmittedBeforeDrain)
    /\ (shutdown.result = "drained" => ExecutingAdmittedBeforeDrain = {})

\* C6: on every exit path of a request, each request_started of the tracking
\* middleware is matched by one request_completed, so that in_flight is back at its
\* former value (zero once no request is inside the router).
C6_StartedThenCompleted ==
    /\ \A r \in Requests : reqs[r].pc = "done" => reqs[r].completed = reqs[r].started
    /\ (\A r \in Requests : reqs[r].pc \in {"new", "done"}) => in_flight = 0

C8_OpensOnInWindowThreshold ==
    [][\A model \in Models, same_instant \in BOOLEAN :
          LET b        == circuit_breakers[breaker_key(model)]
              b2       == circuit_breakers'[breaker_key(model)]
              n        == b.failure_count + 1
              first    == IF b.failure_count = 0 THEN now_s ELSE b.first_counted
              inWindow == now_s - first <= config.circuit_breaker.failure_window_secs
          IN  (/\ RecordFailure(model, same_instant)
               /\ config.circuit_breaker.enabled
               /\ b.state = "Closed") =>
                  IF n >= config.circuit_breaker.failure_threshold
                  THEN IF inWindow
                       THEN b2.state = "Open" /\ b2.opened_at = now_s /\ b2.failure_count = n
                       ELSE b2.state = "Closed" /\ b2.failure_count = 1
                  ELSE b2.state = "Closed" /\ b2.failure_count = n]_vars

\* C9: an open breaker leaves open only to half-open and only when recovery_timeout
\* has elapsed since opened_at; before that every maybe_inject_error for its key
\* returns service-unavailable and leaves it open.
C9_OpenUntilRecoveryTimeout ==
    [][\A key \in BreakerKeys :
          LET b      == circuit_breakers[key]
              b2     == circuit_breakers'[key]
              waited == now_s - b.opened_at
          IN  b.state = "Open" =>
                /\ b2.state # "Open" =>
                      /\ b2.state = "HalfOpen"
                      /\ waited >= config.circuit_breaker.recovery_timeout_secs
                /\ waited < config.circuit_breaker.recovery_timeout_secs =>
                      \A model \in Models, endpoint \in ChaosEndpoints,
                         rl_hit \in BOOLEAN, fires \in Fires :
                          (breaker_key(model) = key
                           /\ MaybeInjectError(model, endpoint, rl_hit, fires))
                              => (injected' = "service_unavailable" /\ b2.state = "Open")]_vars

\* a breaker that a check moved to half-open after a positive recovery timeout
C9_Witness ==
    \E key \in BreakerKeys :
        /\ circuit_breakers[key].state = "HalfOpen"
        /\ circuit_breakers[key].success_count = 0
        /\ config.circuit_breaker.recovery_timeout_secs > 0
        /\ now_s - circuit_breakers[key].opened_at >= config.circuit_breaker.recovery_timeout_secs
        /\ injected # "service_unavailable"

\* C10: in half-open a recorded success increments the success count, which counts
\* the consecutive successes since the breaker became half-open; the success that
\* makes it success_threshold closes the breaker with failure count, success count
\* and opened_at reset.
C10_HalfOpenSuccessesClose ==
    /\ [][\A model \in Models :
             LET b  == circuit_breakers[breaker_key(model)]
                 b2 == circuit_breakers'[breaker_key(model)]
             IN  (/\ RecordSuccess(model)
                  /\ config.circuit_breaker.enabled
                  /\ b.state = "HalfOpen") =>
                     IF b.success_count + 1 >= config.circuit_breaker.success_threshold
                     THEN /\ b2.state = "Closed"
                          /\ b2.failure_count = 0
                          /\ b2.success_count = 0
                          /\ b2.opened_at = NoInstant
                     ELSE /\ b2.state = "HalfOpen"
                          /\ b2.success_count = b.success_count + 1]_vars
    /\ [](\A key \in BreakerKeys :
             circuit_breakers[key].state = "HalfOpen" =>
                 /\ circuit_breakers[key].success_count = circuit_breakers[key].streak
                 /\ circuit_breakers[key].streak < config.circuit_breaker.success_threshold)

\* a breaker closed again by success_threshold (two) successes in a row in half-open
C10_Witness ==
    \E key \in BreakerKeys :
        /\ circuit_breakers[key].state = "Closed"
        /\ circuit_breakers[key].streak >= 2
        /\ circuit_breakers[key].streak = config.circuit_breaker.success_threshold
        /\ circuit_breakers[key].failure_count = 0
        /\ circuit_breakers[key].success_count = 0
        /\ circuit_breakers[key].opened_at = NoInstant

\* C11: in half-open a single recorded failure moves the breaker to open at once
\* (opened_at is the time of the failure), whatever success count it has accumulated.
C11_HalfOpenFailureReopens ==
    [][\A model \in Models, same_instant \in BOOLEAN :
          LET b  == circuit_breakers[breaker_key(model)]
              b2 == circuit_breakers'[breaker_key(model)]
          IN  (/\ RecordFailure(model, same_instant)
               /\ config.circuit_breaker.enabled
               /\ b.state = "HalfOpen") =>
                  /\ b2.state = "Open"
                  /\ b2.opened_at = now_s
                  /\ b2.last_failure = now_s]_vars

\* a breaker reopened by a failure in half-open after it had counted a success there
C11_Witness ==
    \E key \in BreakerKeys :
        /\ circuit_breakers[key].state = "Open"
        /\ circuit_breakers[key].success_count >= 1
        /\ circuit_breakers[key].streak = 0
        /\ circuit_breakers[key].opened_at = circuit_breakers[key].last_failure

\* C12: after an engine request terminates the engine has reported its outcome to the
\* breaker of the request's model; so once a request has failed, the breaker of its
\* key (when breakers are enabled and the breaker exists) holds the time of a
\* recorded failure.
C12_OutcomeReportedToBreaker ==
    \A e \in EngineRequests :
        LET r == engine_reqs[e]
        IN  (/\ r.pc = "done"
             /\ r.result = "err"
             /\ config.circuit_breaker.enabled
             /\ circuit_breakers[breaker_key(r.model)] # NoBreaker) =>
                circuit_breakers[breaker_key(r.model)].last_failure # NoInstant

\* C13: every request passes the security middleware in the order security-headers,
\* CORS, rate limiter, API-key auth, admin gate, handler, and the handler's chaos check
\* comes after the rate limiter: the security layers a request has passed so far are
\* an initial part of that chain.
C13_SecurityChainOrder ==
    LET chain  == <<"security_headers", "cors", "rate_limit", "api_key_auth",
                    "admin_auth", "handler", "chaos">>
        passed == SelectSeq(http.trace,
                            LAMBDA name : name \notin {"trace", "compression", "timeout"})
    IN  /\ Len(passed) <= Len(chain)
        /\ \A i \in 1..Len(passed) : passed[i] = chain[i]

\* C14: the rate limiter charges a request to the bucket of the key id that
\* authentication resolved for it: once a request has both been charged by the
\* limiter and been given its identity, the charged key is the identity's id.
C14_ChargedToResolvedKey ==
    (/\ http.charged # ""
     /\ http.key_info # NoKeyInfo) => http.charged = http.key_info.id

\* the router has answered the request
HttpDone == http.at = Len(layers) + 2

\* the request is at its handler
AtHandler == http.at = Len(layers) + 1

StreamEvents == sse.events

NumEvents == Len(sse.events)

NumTokens == Len(sse.tokens)

\* C17: an OpenAI stream of n tokens emits one chunk with the role delta, then the n
\* content chunks in token order, then one chunk with finish_reason, then [DONE], and
\* nothing after it: the events so far are an initial part of that sequence, and
\* all of it once the stream has ended.
C17_OpenAiEventOrder ==
    sse.format = "openai" =>
        /\ NumEvents <= NumTokens + 3
        /\ sse.state = "ended" => NumEvents = NumTokens + 3
        /\ \A i \in 1..NumEvents :
              LET ev == StreamEvents[i]
              IN  /\ ev.event = ""
                  /\ i = 1 => (ev.data = "role" /\ ev.text = "" /\ ev.finish_reason = "")
                  /\ (i >= 2 /\ i <= NumTokens + 1) =>
                        (ev.data = "content" /\ ev.text = sse.tokens[i - 1]
                           /\ ev.finish_reason = "")
                  /\ i = NumTokens + 2 =>
                        (ev.data = "finish" /\ ev.text = "" /\ ev.finish_reason = "stop")
                  /\ i = NumTokens + 3 => ev.data = "[DONE]"

\* an ended OpenAI stream of at least two tokens
C17_Witness ==
    /\ sse.format = "openai"
    /\ sse.state = "ended"
    /\ NumTokens >= 2
    /\ StreamEvents[NumEvents].data = "[DONE]"
    /\ StreamEvents[2].text = sse.tokens[1]
    /\ StreamEvents[3].text = sse.tokens[2]

\* C18: an Anthropic stream that has ended has emitted message_start, then
\* content_block_start, then content_block_delta or ping events, then
\* content_block_stop, then message_stop as its last event.
C18_AnthropicEventOrder ==
    (sse.format = "anthropic" /\ sse.state = "ended") =>
        /\ NumEvents >= 4
        /\ StreamEvents[1].event = "message_start"
        /\ StreamEvents[2].event = "content_block_start"
        /\ \A i \in 3..(NumEvents - 2) :
              StreamEvents[i].event \in {"content_block_delta", "ping"}
        /\ StreamEvents[NumEvents - 1].event = "content_block_stop"
        /\ StreamEvents[NumEvents].event = "message_stop"

\* the content_block_delta events of the stream, in the order of emission
AnthropicDeltas == SelectSeq(sse.events, LAMBDA ev : ev.event = "content_block_delta")

\* C19: an Anthropic stream that has ended has emitted one content_block_delta for
\* each generated token, in token order (so the delta texts concatenate to the
\* generated content), and every ping stands for an empty delta.
C19_AnthropicDeltaPerToken ==
    (sse.format = "anthropic" /\ sse.state = "ended") =>
        /\ Len(AnthropicDeltas) = NumTokens
        /\ \A i \in 1..Len(AnthropicDeltas) :
              i <= NumTokens => AnthropicDeltas[i].text = sse.tokens[i]

\* the events of the stream made from content chunks (one chunk per token)
GeminiTokenEvents ==
    SelectSeq(sse.events, LAMBDA ev : ev.chunk >= 2 /\ ev.chunk <= NumTokens + 1)

C22_FixedOrderFirstRuleWins ==
    [][\A model \in Models, endpoint \in ChaosEndpoints, rl_hit \in BOOLEAN, fires \in Fires :
          MaybeInjectError(model, endpoint, rl_hit, fires) =>
              LET c     == chaos_call'
                  order == (IF config.circuit_breaker.enabled
                            THEN <<"circuit_breaker">> ELSE <<>>)
                           \o (IF config.rate_limiting.enabled THEN <<"rate_limit">> ELSE <<>>)
                           \o <<"rules">>
                  last  == c.checks[Len(c.checks)]
                  hits  == {i \in 1..Len(config.errors) :
                               /\ config.errors[i].enabled
                               /\ applies_to_model(config.errors[i], model)
                               /\ applies_to_endpoint(config.errors[i], endpoint)
                               /\ fires[i]}
                  first == CHOOSE i \in hits : \A j \in hits : i <= j
              IN  /\ Len(c.checks) >= 1
                  /\ c.checks = SubSeq(order, 1, Len(c.checks))
                  /\ last = "circuit_breaker" =>
                         injected' = "service_unavailable" /\ c.draws = <<>>
                  /\ last = "rate_limit" =>
                         injected' = "rate_limit_exceeded" /\ c.draws = <<>>
                  /\ (last = "rules" /\ hits = {}) =>
                         /\ injected' = "none"
                         /\ c.rule = 0
                         /\ Len(c.draws) = Len(config.errors)
                  /\ (last = "rules" /\ hits # {}) =>
                         /\ injected' = "injected"
                         /\ c.rule = first
                         /\ c.error = config.errors[first].error_type
                         /\ Len(c.draws) = first]_vars

\* a call that passed the breaker and the rate limit, drew for the first rule without
\* a hit and returned the error of the second
C22_Witness ==
    /\ chaos_call.checks = <<"circuit_breaker", "rate_limit", "rules">>
    /\ chaos_call.draws = <<"miss", "hit">>
    /\ chaos_call.rule = 2
    /\ injected = "injected"

\* C23 as stated: the maybe_inject_error call that finds the breaker open with the
\* recovery timeout elapsed makes it half-open and returns none.
C23_HalfOpenCallReturnsNone ==
    [][\A model \in Models, rl_hit \in BOOLEAN, fires \in Fires :
          LET b  == circuit_breakers[breaker_key(model)]
              b2 == circuit_breakers'[breaker_key(model)]
          IN  (/\ is_active
               /\ config.circuit_breaker.enabled
               /\ b.state = "Open"
               /\ now_s - b.opened_at >= config.circuit_breaker.recovery_timeout_secs
               /\ MaybeInjectError(model, "/chat/completions", rl_hit, fires)) =>
                  (b2.state = "HalfOpen" /\ injected' = "none")]_vars

\* C23, amended: that call makes the breaker half-open with a success count of zero and
\* does not return the breaker's service-unavailable error; it goes on to the chaos
\* rate limit and the injection rules, which decide what it returns.
C23_HalfOpenCallPassesBreaker ==
    [][\A model \in Models, rl_hit \in BOOLEAN, fires \in Fires :
          LET b  == circuit_breakers[breaker_key(model)]
              b2 == circuit_breakers'[breaker_key(model)]
          IN  (/\ is_active
               /\ config.circuit_breaker.enabled
               /\ b.state = "Open"
               /\ now_s - b.opened_at >= config.circuit_breaker.recovery_timeout_secs
               /\ MaybeInjectError(model, "/chat/completions", rl_hit, fires)) =>
                  /\ b2.state = "HalfOpen"
                  /\ b2.success_count = 0
                  /\ injected' # "service_unavailable"
                  /\ Len(chaos_call'.checks) >= 2
                  /\ chaos_call'.checks[2] = "rate_limit"
                  /\ injected' = (IF rl_hit THEN "rate_limit_exceeded"
                                  ELSE IF fires[1] THEN "injected" ELSE "none")]_vars

\* a breaker that a check moved to half-open after a positive recovery timeout, by a
\* call that then returned the chaos rate limiter's error
C23_Witness ==
    \E key \in BreakerKeys :
        /\ circuit_breakers[key].state = "HalfOpen"
        /\ circuit_breakers[key].success_count = 0
        /\ circuit_breakers[key].streak = 0
        /\ config.circuit_breaker.recovery_timeout_secs > 0
        /\ injected = "rate_limit_exceeded"
        /\ chaos_call.checks = <<"circuit_breaker", "rate_limit">>

\* C25: chat_completion checks chaos first, then the model, then the request, then
\* the context length, and returns the first error found; a model-not-found or
\* validation error returns before the generator is called and before the latency
\* sleep, and leaves the token totals and the latency samples as they were.
C25_ChecksInOrderBeforeGenerator ==
    [][\A e \in EngineRequests, rl_hit \in BOOLEAN, fires \in Fires,
          output_tokens \in 1..MaxOutputTokens :
          (/\ engine_reqs[e].pc = "new"
           /\ engine_reqs'[e].endpoint = "chat_completion"
           /\ EngineCall(e, "chat_completion", engine_reqs'[e].req, rl_hit, fires,
                         output_tokens)) =>
              LET r        == engine_reqs'[e]
                  req      == r.req
                  known    == req.model \in DOMAIN models
                  valid    == req.messages # <<>> /\ req.params_ok
                  too_long == estimate_input_tokens(req.messages)
                                  > models[req.model].context_length
              IN  /\ r.error = (IF injected' # "none" THEN "chaos"
                                ELSE IF ~known THEN "model_not_found"
                                ELSE IF ~valid THEN "validation"
                                ELSE IF too_long THEN "context_length_exceeded"
                                ELSE "")
                  /\ r.error \in {"model_not_found", "validation"} =>
                         /\ ~r.generated
                         /\ r.pc = "done"
                         /\ r.result = "err"
                         /\ stats'.total_input_tokens = stats.total_input_tokens
                         /\ stats'.total_output_tokens = stats.total_output_tokens
                         /\ stats'.latencies = stats.latencies]_vars

\* a chat_completion call with active chaos that injected nothing, for an unknown model
\* and an invalid request: it ended with model-not-found, nothing generated or recorded
C25_Witness ==
    \E e \in EngineRequests :
        /\ engine_reqs[e].endpoint = "chat_completion"
        /\ engine_reqs[e].pc = "done"
        /\ engine_reqs[e].error = "model_not_found"
        /\ ~engine_reqs[e].req.params_ok
        /\ ~engine_reqs[e].generated
        /\ is_active
        /\ injected = "none"
        /\ stats.total_requests = 1
        /\ stats.total_input_tokens = 0
        /\ stats.latencies = 0

\* C26: an engine call that maybe_inject_error answers with an error returns that error
\* and adds exactly one to total_errors, for chat_completion, chat_completion_stream
\* and embeddings; no later step of the call touches total_errors.
C26_ChaosErrorCountedOnce ==
    /\ [][\A e \in EngineRequests, endpoint \in Endpoints, rl_hit \in BOOLEAN,
             fires \in Fires, output_tokens \in 1..MaxOutputTokens :
             (/\ engine_reqs[e].pc = "new"
              /\ injected' # "none"
              /\ engine_reqs'[e].endpoint = endpoint
              /\ EngineCall(e, endpoint, engine_reqs'[e].req, rl_hit, fires,
                            output_tokens)) =>
                 /\ engine_reqs'[e].pc = "done"
                 /\ engine_reqs'[e].result = "err"
                 /\ stats'.total_errors = stats.total_errors + 1]_vars
    /\ [][\A e \in EngineRequests :
             EngineLatencyElapsed(e) => stats'.total_errors = stats.total_errors]_vars

\* an embeddings call that ended with the error of an injection rule, counted once
C26_Witness ==
    \E e \in EngineRequests :
        /\ engine_reqs[e].endpoint = "embeddings"
        /\ engine_reqs[e].pc = "done"
        /\ engine_reqs[e].error = "chaos"
        /\ injected = "injected"
        /\ stats.total_errors = 1
        /\ stats.total_requests = 1

\* C27 as stated: the budget handed to the generator is the minimum of max_tokens,
\* max_completion_tokens and the model's max_output_tokens over those present, with
\* 4096 for the request's limit when it gives neither.
C27_BudgetIsMinOfLimits ==
    (chat.pc = "done" /\ chat.error = "none") =>
        LET req     == chat.req
            present == {IF req.max_tokens = NoLimit /\ req.max_completion_tokens = NoLimit
                        THEN DefaultMaxTokens ELSE NoLimit,
                        req.max_tokens,
                        req.max_completion_tokens,
                        models[req.model].max_output_tokens} \ {NoLimit}
        IN  chat.max_tokens = CHOOSE m \in present : \A n \in present : m <= n

\* C27, amended: the request's limit is max_completion_tokens when present, else
\* max_tokens when present, else 4096; the budget handed to the generator is the
\* smaller of that limit and the model's max_output_tokens.
C27_BudgetPrefersCompletionLimit ==
    (chat.pc = "done" /\ chat.error = "none") =>
        LET req   == chat.req
            limit == IF req.max_completion_tokens # NoLimit THEN req.max_completion_tokens
                     ELSE IF req.max_tokens # NoLimit THEN req.max_tokens
                     ELSE DefaultMaxTokens
            cap   == models[req.model].max_output_tokens
        IN  /\ chat.max_tokens <= cap
            /\ chat.max_tokens <= limit
            /\ chat.max_tokens \in {cap, limit}

\* a request with max_tokens 1 and max_completion_tokens 2 for a model that allows
\* more: the generator is given 2
C27_Witness ==
    /\ chat.pc = "done"
    /\ chat.error = "none"
    /\ chat.req.max_tokens = 1
    /\ chat.req.max_completion_tokens = 2
    /\ models[chat.req.model].max_output_tokens > 2
    /\ chat.max_tokens = 2

\* C28: the input-token estimate of a request is the sum over its messages of
\* max(1, ceil(text_len / 4)), and a request that reaches the context check is
\* rejected with context-length-exceeded exactly when that sum is greater than the
\* model's context_length.
C28_CeilEstimateDecidesContext ==
    (chat.pc = "done" /\ chat.error \in {"none", "context_length_exceeded"}) =>
        LET messages == chat.req.messages
            ceil4(text_len) == (text_len + 3) \div 4
            upto[i \in 0..Len(messages)] ==
                IF i = 0 THEN 0
                ELSE upto[i - 1] + (IF ceil4(messages[i]) >= 1 THEN ceil4(messages[i]) ELSE 1)
            estimate == upto[Len(messages)]
        IN  /\ chat.input_tokens = estimate
            /\ chat.error = "context_length_exceeded" <=>
                   estimate > models[chat.req.model].context_length

\* the events of the stream made from the chunk of token i (tokens counted from 1)
TokenEvents(i) == SelectSeq(sse.events, LAMBDA ev : ev.chunk = i + 1)

\* C21: in each of the three formats the delay of a token is slept before the token's
\* event is yielded: the event made from token i carries a time that is at least
\* ttft + overhead + the delays of the tokens up to and including i after the start.
C21_TokenEventAfterItsDelays ==
    \A i \in 1..NumTokens :
       \A k \in 1..Len(TokenEvents(i)) :
          TokenEvents(i)[k].at >=
              sse.schedule.ttft + sse.schedule.overhead
                + sum(SubSeq(sse.schedule.token_delays, 1, i))

\* the second token of a stream has been yielded after a first-token wait and two
\* positive token delays, by a runtime that woke the stream on time
C21_Witness ==
    /\ NumTokens >= 2
    /\ sse.schedule.ttft > 0
    /\ sse.schedule.token_delays[1] > 0
    /\ sse.schedule.token_delays[2] > 0
    /\ Len(TokenEvents(2)) = 1
    /\ TokenEvents(2)[1].at =
           sse.schedule.ttft + sse.schedule.overhead + sse.schedule.token_delays[1]
             + sse.schedule.token_delays[2]

\* C29: once the client has dropped a streaming response part-way through, the
\* engine's latency statistics hold a sample for that request.  (That no event
\* follows the drop holds: no closure call is enabled on a dropped stream.)
C29_DroppedStreamLatencyRecorded ==
    (sse.state = "dropped" /\ NumEvents >= 1 /\ sse.iter <= Len(sse.chunks)) =>
        stats.latencies >= 1

\* C30: generate_schedule returns one delay for each of the n tokens, total_duration
\* is ttft + overhead + the sum of the token delays, and with latency disabled ttft,
\* overhead and every token delay are zero.
C30_ScheduleShape ==
    sse.state # "idle" =>
        LET schedule == sse.schedule
            n        == Len(schedule.token_delays)
            upto[i \in 0..n] ==
                IF i = 0 THEN 0 ELSE upto[i - 1] + schedule.token_delays[i]
        IN  /\ n = NumTokens
            /\ total_duration(schedule) = schedule.ttft + schedule.overhead + upto[n]
            /\ ~sse.latency_enabled =>
                  /\ schedule.ttft = 0
                  /\ schedule.overhead = 0
                  /\ \A i \in 1..n : schedule.token_delays[i] = 0
                  /\ total_duration(schedule) = 0

\* a schedule for two tokens made with latency disabled, whatever the sampler drew
\* (the first chunk of the stream was yielded at time 0)
C30_Witness ==
    /\ sse.state = "open"
    /\ ~sse.latency_enabled
    /\ NumTokens = 2
    /\ Len(sse.schedule.token_delays) = 2
    /\ NumEvents >= 1
    /\ StreamEvents[NumEvents].chunk = 1
    /\ StreamEvents[NumEvents].at = 0

\* C24: with authentication enabled on a path that is not exempt, a request the
\* API-key middleware rejects is classified by its header: none gives MissingHeader,
\* one that is present but malformed gives InvalidFormat, a well-formed key that is not
\* configured gives InvalidKey, and a configured but disabled key gives KeyDisabled.
C24_RejectionClassified ==
    (HttpDone /\ http.by = "api_key_auth") =>
        /\ http.status = 401
        /\ http.credential = "none" => http.auth_error = "MissingHeader"
        /\ http.credential = "Basic sk-user" => http.auth_error = "InvalidFormat"
        /\ http.credential = "sk-invalid" => http.auth_error = "InvalidKey"
        /\ http.credential = "sk-off" => http.auth_error = "KeyDisabled"

\* C34: is_ready() is true exactly when the ready flag is true and the draining flag is
\* false, and a start_drain call (from graceful_shutdown or admin_drain) has set
\* draining to true and ready to false when it returns.
C34_ReadyIffReadyAndNotDraining ==
    /\ [](is_ready <=> (ready /\ ~draining))
    /\ [][(StartDrainSetReady \/ AdminDrainSetReady) =>
             (draining' /\ ~ready' /\ ~is_ready')]_vars

\* graceful_shutdown has called start_drain: draining is set, ready cleared
C34_Witness ==
    /\ shutdown.pc = "poll"
    /\ draining
    /\ ~ready
    /\ ~is_ready
    /\ in_flight > 0

\* C40: once start_drain has stored the draining flag it stays true and is_ready() stays
\* false in every later state, whatever set_ready, request_started and
\* request_completed calls follow; admin_drain answers draining and not ready.
C40_NeverReadyAgain ==
    /\ [][draining => (draining' /\ ~is_ready')]_vars
    /\ [][AdminDrainStatus => (admin'.status.draining /\ ~admin'.status.ready)]_vars

\* after start_drain returned, set_ready(true) was called and a request completed: the
\* ready flag is true, the server is still draining and not ready
C40_Witness ==
    /\ shutdown.pc \in {"poll", "sleep", "done"}
    /\ admin.status.draining
    /\ draining
    /\ ready
    /\ ~is_ready
    /\ in_flight = 0

\* C37: no request starts executing in a handler after wait_for_drain has returned with
\* the counter at zero: on a router with the tracking layer, no request passes
\* request_started towards its handler once wait_for_drain has returned drained.
C37_NoStartAfterDrained ==
    [][\A r \in Requests :
          TrackingStarted(r) => ~(shutdown.pc = "done" /\ shutdown.result = "drained")]_vars

\* C35: a success recorded on a closed breaker sets its failure count to zero and leaves
\* it closed, and a failure recorded on a closed breaker adds at most one to the count:
\* only failures with no success between them add up towards failure_threshold.
C35_SuccessResetsFailureCount ==
    [][\A model \in Models :
          LET b  == circuit_breakers[breaker_key(model)]
              b2 == circuit_breakers'[breaker_key(model)]
          IN  (/\ config.circuit_breaker.enabled
               /\ b # NoBreaker
               /\ b.state = "Closed") =>
                  /\ RecordSuccess(model) => (b2.state = "Closed" /\ b2.failure_count = 0)
                  /\ \A same_instant \in BOOLEAN :
                        RecordFailure(model, same_instant) =>
                            /\ b2.failure_count <= b.failure_count + 1
                            /\ b2.state = "Open" =>
                                  b.failure_count + 1
                                      >= config.circuit_breaker.failure_threshold]_vars

\* a closed breaker with a threshold of two whose one counted failure a success has
\* cleared, before it ever opened
C35_Witness ==
    \E key \in BreakerKeys :
        /\ circuit_breakers[key] # NoBreaker
        /\ circuit_breakers[key].state = "Closed"
        /\ circuit_breakers[key].failure_count = 0
        /\ circuit_breakers[key].last_failure # NoInstant
        /\ circuit_breakers[key].streak = 0
        /\ config.circuit_breaker.failure_threshold = MaxThreshold

\* C36: failures and successes recorded on an open breaker change neither its state nor
\* opened_at; opened_at is written only on the step that opens the breaker, so the
\* recovery timeout runs from the one opening of each cycle.
C36_OpenBreakerIgnoresRecords ==
    [][\A model \in Models :
          LET b  == circuit_breakers[breaker_key(model)]
              b2 == circuit_breakers'[breaker_key(model)]
          IN  /\ (/\ b # NoBreaker
                  /\ b.state = "Open"
                  /\ \/ RecordSuccess(model)
                     \/ \E same_instant \in BOOLEAN : RecordFailure(model, same_instant)) =>
                     (b2.state = "Open" /\ b2.opened_at = b.opened_at)
              /\ (b # NoBreaker /\ b2 # NoBreaker /\ b2.opened_at # b.opened_at) =>
                     \/ b.state \in {"Closed", "HalfOpen"} /\ b2.state = "Open"
                        /\ b2.opened_at = now_s
                     \/ b.state = "HalfOpen" /\ b2.state = "Closed"
                        /\ b2.opened_at = NoInstant]_vars

\* an open breaker on which a failure was recorded a second after it opened
C36_Witness ==
    \E key \in BreakerKeys :
        /\ circuit_breakers[key] # NoBreaker
        /\ circuit_breakers[key].state = "Open"
        /\ circuit_breakers[key].opened_at # NoInstant
        /\ circuit_breakers[key].last_failure > circuit_breakers[key].opened_at

C38_TargetRangeNeverEmpty ==
    /\ chat.pc # "panicked"
    /\ (chat.pc = "done" /\ chat.error = "none") =>
           target_range(chat.max_tokens, engine.config.generation) # {}

\* C31: with a seed in the config, every run of chat_completion for the same request
\* returns the same content and the same token count, whatever the generation strategy.
C31_SeededRunsAgree ==
    engine.config.seed # NoSeed =>
        \A i, j \in 1..Len(chat.responses) : chat.responses[i] = chat.responses[j]

\* C32: generate_schedule makes one draw for the TTFT and one separate draw for each of
\* the n token delays when the distribution is random, and no draw reads the rng state
\* that another draw of the schedule read, with a seed and without one.
C32_DrawsAdvanceTheStream ==
    sse.state # "idle" =>
        /\ Len(sse.schedule.token_delays) = Len(sse.tokens)
        /\ (sse.latency_enabled /\ engine.latency_sim.config.distribution # "fixed") =>
               Len(sse.draws) = Len(sse.tokens) + 1
        /\ \A i, j \in DOMAIN sse.draws : i # j => sse.draws[i] # sse.draws[j]

\* C33: update_config validates the new config first.  When a check fails it returns
\* the validation error and the held config, the latency simulator, the chaos engine and
\* the generator stay as they were.  When the config is valid, the held config is the
\* new one, the latency simulator and the chaos engine are built from it, and the
\* generator is re-seeded with the new seed if the new config has one and is kept as it
\* was if it has none.
C33_UpdateConfigValidatesThenReplaces ==
    [][\A new \in UpdateConfigs :
          UpdateConfig(new) =>
             IF new.server.port = 0 \/ new.latency.multiplier < 0
                \/ new.chaos.circuit_breaker.failure_threshold = 0
             THEN /\ admin'.update_config = "validation"
                  /\ UNCHANGED <<engine, config, circuit_breakers, request_counter>>
             ELSE /\ admin'.update_config = "ok"
                  /\ engine'.config = new
                  /\ engine'.latency_sim.config = new.latency
                  /\ engine'.latency_sim.rng_seed = new.seed
                  /\ config' = new.chaos
                  /\ \A k \in BreakerKeys : circuit_breakers'[k] = NoBreaker
                  /\ request_counter' = 0
                  /\ (new.seed # NoSeed) =>
                         engine'.generator.rng = seed_from_u64(new.seed)
                  /\ (new.seed = NoSeed) => engine'.generator = engine.generator]_vars

\* a seeded engine with a used chaos engine took a valid config without a seed: the
\* config is replaced, the breakers are gone, the generator still has the old seed
C33_Witness ==
    /\ admin.update_config = "ok"
    /\ engine.config.seed = NoSeed
    /\ engine.latency_sim.rng_seed = NoSeed
    /\ engine.generator.rng.source = "seed"
    /\ config.circuit_breaker.enabled
    /\ \A k \in BreakerKeys : circuit_breakers[k] = NoBreaker

====
